---- MODULE Spec2Model ----
(***************************************************************************)
(* State-machine model of HistogramManager                                 *)
(* (DQM/SiPixelPhase1Common/src/HistogramManager.cc): booking, the         *)
(* per-sample stage-1 executor with its fastpath cache, per-event          *)
(* harvesting and the stage-2 (offline harvesting) table transforms.       *)
(*                                                                         *)
(* Doubles are modelled as integers; axis limits are stored doubled        *)
(* (xmin2 = 2*xmin) so that the half-integer limits of EXTEND axes stay    *)
(* integral.  Titles and axis labels are not modelled.                     *)
(***************************************************************************)
EXTENDS Integers, Sequences, FiniteSets, TLC

(***************************************************************************)
(* Bounds of the exploration                                               *)
(***************************************************************************)
MaxFills == 3
MaxHarvests == 2

(***************************************************************************)
(* GeometryInterface: columns, values, modules                             *)
(***************************************************************************)
UNDEFINED == 999999999
PXLayer == 1
PXLadder == 2
NoDetId == 0

pretty(c) ==
  IF c = PXLayer THEN "PXLayer" ELSE IF c = PXLadder THEN "PXLadder" ELSE ""

minValue(c) == 1

maxValue(c) == 2

\* the modules of the detector, in allModules() order
allModules == <<1, 2, 3>>

\* value of column c for detector module mod
ColumnValue(mod, c) ==
  IF mod = 1 THEN (IF c = PXLayer THEN 1 ELSE 1)
  ELSE IF mod = 2 THEN (IF c = PXLayer THEN 1 ELSE 2)
  ELSE IF mod = 3 THEN (IF c = PXLayer THEN 2 ELSE UNDEFINED)
  ELSE UNDEFINED

Range(f) == {f[i] : i \in DOMAIN f}

(***************************************************************************)
(* GeometryInterface::Values: a key is a function column -> value          *)
(***************************************************************************)
NoValues == [c \in {} |-> 0]

\* Values::operator[] : value of a column, UNDEFINED when absent
ValuesAt(sv, c) == IF c \in DOMAIN sv THEN sv[c] ELSE UNDEFINED

\* Values::erase
ValuesErase(sv, c) == [d \in (DOMAIN sv) \ {c} |-> sv[d]]

\* new_vals.put(old.get(c)) for every c of a column list
ValuesProject(sv, columns) == [c \in Range(columns) |-> ValuesAt(sv, c)]

\* GeometryInterface::extractColumns
extractColumns(columns, iqv) ==
  [c \in Range(columns) |-> ColumnValue(iqv.sourceModule, c)]

\* the (column, value) pairs of a key in column order
RECURSIVE PairsOf(_)
PairsOf(sv) ==
  IF DOMAIN sv = {} THEN <<>>
  ELSE LET c == CHOOSE d \in DOMAIN sv : \A e \in DOMAIN sv : d <= e
       IN <<(<<c, sv[c]>>)>> \o PairsOf(ValuesErase(sv, c))

RECURSIVE SeqLess(_, _)
SeqLess(a, b) ==
  IF Len(b) = 0 THEN FALSE
  ELSE IF Len(a) = 0 THEN TRUE
  ELSE IF Head(a)[1] # Head(b)[1] THEN Head(a)[1] < Head(b)[1]
  ELSE IF Head(a)[2] # Head(b)[2] THEN Head(a)[2] < Head(b)[2]
  ELSE SeqLess(Tail(a), Tail(b))

\* the ordering of the Table (std::map<Values, AbstractHistogram>)
ValuesLess(a, b) == SeqLess(PairsOf(a), PairsOf(b))

\* the keys of a set in Table iteration order
RECURSIVE SortKeys(_)
SortKeys(S) ==
  IF S = {} THEN <<>>
  ELSE LET k == CHOOSE a \in S : \A b \in S \ {a} : ValuesLess(a, b)
       IN <<k>> \o SortKeys(S \ {k})

(***************************************************************************)
(* Histograms (TH1 / MonitorElement contents)                              *)
(***************************************************************************)
BinIndices(dim, nx, ny) ==
  IF dim = 1 THEN 0..(nx + 1) ELSE (0..(nx + 1)) \X (0..(ny + 1))

NewTH1(name, nx, xmin2, xmax2) ==
  [dim |-> 1, nx |-> nx, ny |-> 1, name |-> name,
   xmin2 |-> xmin2, xmax2 |-> xmax2, ymin2 |-> 0, ymax2 |-> 2,
   bins |-> [b \in BinIndices(1, nx, 1) |-> 0], entries |-> 0]

NewTH2(name, nx, xmin2, xmax2, ny, ymin2, ymax2) ==
  [dim |-> 2, nx |-> nx, ny |-> ny, name |-> name,
   xmin2 |-> xmin2, xmax2 |-> xmax2, ymin2 |-> ymin2, ymax2 |-> ymax2,
   bins |-> [b \in BinIndices(2, nx, ny) |-> 0], entries |-> 0]

\* TAxis::FindBin for a value v (v2 = 2*v)
FindBin(n, min2, max2, v2) ==
  IF v2 < min2 THEN 0
  ELSE IF v2 >= max2 THEN n + 1
  ELSE 1 + ((n * (v2 - min2)) \div (max2 - min2))

\* TH1::Fill(x) / TH2::Fill(x, y)
TH1Fill(h, x, y) ==
  LET bx == FindBin(h.nx, h.xmin2, h.xmax2, 2 * x)
      by == FindBin(h.ny, h.ymin2, h.ymax2, 2 * y)
      b  == IF h.dim = 1 THEN bx ELSE <<bx, by>>
  IN [h EXCEPT !.bins[b] = @ + 1, !.entries = @ + 1]

SameBinning(a, b) == a.dim = b.dim /\ a.nx = b.nx /\ a.ny = b.ny

\* TH1::Add(other); histograms of different binning are not added
TH1Add(h, o) ==
  IF ~SameBinning(h, o) THEN h
  ELSE [h EXCEPT !.bins = [b \in DOMAIN h.bins |-> h.bins[b] + o.bins[b]],
                 !.entries = @ + o.entries]

\* TH1::GetBinContent(i) of a global bin number
GetBinContent1(h, i) ==
  IF h.dim = 1 THEN (IF i \in DOMAIN h.bins THEN h.bins[i] ELSE 0)
  ELSE LET b == <<i % (h.nx + 2), i \div (h.nx + 2)>>
       IN IF b \in DOMAIN h.bins THEN h.bins[b] ELSE 0

\* TH1::GetBinContent(i, j)
GetBinContent2(h, i, j) ==
  IF h.dim = 1 THEN (IF i \in DOMAIN h.bins THEN h.bins[i] ELSE 0)
  ELSE IF <<i, j>> \in DOMAIN h.bins THEN h.bins[<<i, j>>] ELSE 0

\* TH1::SetBinContent(bin, c)
TH1SetBinContent(h, b, c) ==
  IF b \in DOMAIN h.bins
  THEN [h EXCEPT !.bins[b] = c, !.entries = @ + 1]
  ELSE [h EXCEPT !.entries = @ + 1]

RECURSIVE SumOver(_, _)
SumOver(f, S) ==
  IF S = {} THEN 0
  ELSE LET b == CHOOSE c \in S : TRUE IN f[b] + SumOver(f, S \ {b})

\* sum of all bin contents, underflow and overflow included
TotalContent(h) == SumOver(h.bins, DOMAIN h.bins)

(***************************************************************************)
(* AbstractHistogram: one slot of a Table                                  *)
(***************************************************************************)
NoME == ""
NullTH1 == [kind |-> "null"]
METH1 == [kind |-> "me"]
OwnTH1(h) == [h |-> h, kind |-> "own"]

EmptyEntry == [count |-> 0, me |-> NoME, th1 |-> NullTH1]

\* (!th1 && !me) is false
IsBound(e) == e.me # NoME \/ e.th1.kind # "null"

\* t[k]: the table with the slot of k default-constructed when absent
TableAt(t, k) ==
  [kk \in (DOMAIN t) \cup {k} |-> IF kk \in DOMAIN t THEN t[kk] ELSE EmptyEntry]

EmptyTable == [k \in {} |-> EmptyEntry]

(***************************************************************************)
(* Summation steps and cache slots                                         *)
(***************************************************************************)
Step(type, stage, columns, arg) ==
  [columns |-> columns, type |-> type, stage |-> stage, arg |-> arg]

\* a cache slot (AbstractHistogram*): null, the address of a Table slot, or
\* the address of a local copy of a slot (executePerEventHarvesting)
NullPtr == [e |-> EmptyEntry, kind |-> "null", key |-> NoValues]
EntryPtr(k) == [e |-> EmptyEntry, kind |-> "entry", key |-> k]
CopyPtr(k, e) == [e |-> e, kind |-> "copy", key |-> k]

Deref(fp, t) == IF fp.kind = "entry" THEN t[fp.key] ELSE fp.e

\* the working state of one executeStep1Spec call
Abort(w, msg) == [w EXCEPT !.status = "abort", !.msg = msg]

\* fastpath->count++
CountIncrement(w) ==
  IF w.fp.kind = "entry"
  THEN [w EXCEPT !.t[w.fp.key].count = @ + 1]
  ELSE [w EXCEPT !.fp.e.count = @ + 1]

\* AbstractHistogram::fill(x) / fill(x, y) through a cache slot
HistoFill(w, x, y, ndim) ==
  LET e == Deref(w.fp, w.t) IN
  IF e.me # NoME
  THEN IF w.store[e.me].h.dim # ndim
       THEN Abort(w, "fill: histogram kind")
       ELSE [w EXCEPT !.store[e.me].h = TH1Fill(@, x, y)]
  ELSE IF e.th1.kind = "own"
  THEN IF e.th1.h.dim # ndim
       THEN Abort(w, "fill: histogram kind")
       ELSE IF w.fp.kind = "entry"
            THEN [w EXCEPT !.t[w.fp.key].th1.h = TH1Fill(@, x, y)]
            ELSE [w EXCEPT !.fp.e.th1.h = TH1Fill(@, x, y)]
  ELSE CountIncrement(w)

(***************************************************************************)
(* HistogramManager::executeStep1Spec                                      *)
(***************************************************************************)
\* COUNT that looks the Counter up also when it is given the cache slot
Step1Count_AlwaysLookup(i, w, s) ==
  LET w1 == [w EXCEPT !.x = 0, !.y = 0, !.dimensions = 0] IN
  IF i + 1 > Len(s) THEN Abort(w1, "steps.at: out_of_range")
  ELSE IF s[i + 1].stage = "STAGE1_2"
  THEN LET w2 == [w1 EXCEPT !.t = TableAt(w1.t, w1.sv),
                            !.fp = EntryPtr(w1.sv),
                            !.lookups = @ + 1]
       IN [CountIncrement(w2) EXCEPT !.status = "ret"]
  ELSE w1

\* case SummationStep::COUNT
Step1Count(i, w, s) ==
  LET w1 == [w EXCEPT !.x = 0, !.y = 0, !.dimensions = 0] IN
  IF i + 1 > Len(s) THEN Abort(w1, "steps.at: out_of_range")
  ELSE IF s[i + 1].stage = "STAGE1_2"
  THEN LET w2 == IF w1.fp.kind = "null"
                 THEN [w1 EXCEPT !.t = TableAt(w1.t, w1.sv),
                                 !.fp = EntryPtr(w1.sv),
                                 !.lookups = @ + 1]
                 ELSE w1
       IN [CountIncrement(w2) EXCEPT !.status = "ret"]
  ELSE w1

\* case SummationStep::EXTEND_X
Step1ExtendX(step, w) ==
  IF ~(w.x = 0 /\ w.dimensions # 1)
  THEN Abort(w, "Can only EXTEND on COUNTs in step1")
  ELSE IF Len(step.columns) = 0 THEN Abort(w, "columns.at: out_of_range")
  ELSE [w EXCEPT !.x = ValuesAt(w.sv, step.columns[1]),
                 !.sv = ValuesErase(w.sv, step.columns[1]),
                 !.dimensions = IF w.dimensions = 0 THEN 1 ELSE 2]

\* case SummationStep::EXTEND_Y
Step1ExtendY(step, w) ==
  IF ~(w.y = 0)
  THEN Abort(w, "Can only EXTEND on COUNTs in step1")
  ELSE IF Len(step.columns) = 0 THEN Abort(w, "columns.at: out_of_range")
  ELSE [w EXCEPT !.y = ValuesAt(w.sv, step.columns[1]),
                 !.sv = ValuesErase(w.sv, step.columns[1]),
                 !.dimensions = 2]

\* GROUPBY that leaves the Counter as it is
Step1GroupBy_NoReset(step, w, stage) ==
  IF stage # "STAGE1_2"
  THEN Abort(w, "Only COUNT/GROUPBY with per-event harvesting allowed in step1")
  ELSE LET t1 == TableAt(w.t, w.sv)
           xx == IF w.fp.kind = "null" THEN t1[w.sv].count
                 ELSE Deref(w.fp, w.t).count
       IN [w EXCEPT !.dimensions = 1,
                    !.x = xx,
                    !.fp = NullPtr,
                    !.t = t1,
                    !.sv = ValuesProject(w.sv, step.columns)]

\* GROUPBY that resets the whole slot instead of its count
Step1GroupBy_Unbind(step, w, stage) ==
  IF stage # "STAGE1_2"
  THEN Abort(w, "Only COUNT/GROUPBY with per-event harvesting allowed in step1")
  ELSE LET t1 == TableAt(w.t, w.sv)
           xx == IF w.fp.kind = "null" THEN t1[w.sv].count
                 ELSE Deref(w.fp, w.t).count
       IN [w EXCEPT !.dimensions = 1,
                    !.x = xx,
                    !.fp = NullPtr,
                    !.t = [t1 EXCEPT ![w.sv] = EmptyEntry],
                    !.sv = ValuesProject(w.sv, step.columns)]

\* case SummationStep::GROUPBY
Step1GroupBy(step, w, stage) ==
  IF stage # "STAGE1_2"
  THEN Abort(w, "Only COUNT/GROUPBY with per-event harvesting allowed in step1")
  ELSE LET t1 == TableAt(w.t, w.sv)
           xx == IF w.fp.kind = "null" THEN t1[w.sv].count
                 ELSE Deref(w.fp, w.t).count
       IN [w EXCEPT !.dimensions = 1,
                    !.x = xx,
                    !.fp = NullPtr,
                    !.t = [t1 EXCEPT ![w.sv].count = 0],
                    !.sv = ValuesProject(w.sv, step.columns),
                    !.lookups = @ + (IF w.fp.kind = "null" THEN 2 ELSE 1)]

Step1Do(i, step, w, s, stage) ==
  CASE step.type = "SAVE" -> w
    [] step.type = "COUNT" -> Step1Count(i, w, s)
    [] step.type = "EXTEND_X" -> Step1ExtendX(step, w)
    [] step.type = "EXTEND_Y" -> Step1ExtendY(step, w)
    [] step.type = "GROUPBY" -> Step1GroupBy(step, w, stage)
    [] OTHER -> Abort(w, "Illegal step; booking should have caught this.")

\* the loop over s.steps
RECURSIVE Step1Walk(_, _, _, _)
Step1Walk(i, w, s, stage) ==
  IF w.status # "run" \/ i > Len(s) THEN w
  ELSE IF s[i].stage # stage THEN Step1Walk(i + 1, w, s, stage)
  ELSE Step1Walk(i + 1, Step1Do(i, s[i], w, s, stage), s, stage)

\* a lookup with t[significantvalues] instead of t.find
Step1Lookup_Insert(w, bookUndef) ==
  IF w.fp.kind # "null" THEN w
  ELSE IF w.sv \notin DOMAIN w.t \/ ~IsBound(w.t[w.sv])
  THEN IF bookUndef
       THEN Abort(w, "All histograms were booked but one is missing.")
       ELSE [w EXCEPT !.t = TableAt(w.t, w.sv), !.status = "ret"]
  ELSE [w EXCEPT !.fp = EntryPtr(w.sv)]

\* the lookup of the final key (if (!fastpath) ...): the slot, or a dropped
\* sample, or the booking assertion
Step1Lookup(w, bookUndef) ==
  IF w.fp.kind # "null" THEN w
  ELSE IF w.sv \notin DOMAIN w.t \/ ~IsBound(w.t[w.sv])
  THEN IF bookUndef
       THEN Abort([w EXCEPT !.lookups = @ + 1],
                  "All histograms were booked but one is missing.")
       ELSE [w EXCEPT !.status = "ret", !.lookups = @ + 1]
  ELSE [w EXCEPT !.fp = EntryPtr(w.sv), !.lookups = @ + 1]

\* the fill after the lookup
Step1Fill(w) ==
  IF w.dimensions = 0 THEN HistoFill(w, 0, 0, 1)
  ELSE IF w.dimensions = 1 THEN HistoFill(w, w.x, 0, 1)
  ELSE HistoFill(w, w.x, w.y, 2)

Step1Final(w, bookUndef) ==
  LET Found(w1) == IF w1.status # "run" THEN w1 ELSE Step1Fill(w1)
  IN Found(Step1Lookup(w, bookUndef))

\* result: the table, the store, the key (passed by reference) and the
\* cache slot (passed by reference) after the call, and whether it aborted
executeStep1Spec(x, y, sv, s, t, stage, fp, st, dims, bookUndef) ==
  LET w0 == [x |-> x, y |-> y, dimensions |-> dims, sv |-> sv, t |-> t,
             fp |-> fp, store |-> st, status |-> "run", msg |-> "",
             lookups |-> 0]
      Final(w1) == IF w1.status # "run" THEN w1 ELSE Step1Final(w1, bookUndef)
  IN Final(Step1Walk(1, w0, s, stage))

(***************************************************************************)
(* State                                                                   *)
(***************************************************************************)
VARIABLES
  specs,              \* the step programs, steps[0] = specs[i][1] is the seed
  enabled,
  bookUndefined,
  dimensions,
  iConfig,            \* name, topFolderName and the configured ranges
  tables,
  significantvalues,
  fastpath,
  iq,
  store,              \* the DQMStore: path/name -> MonitorElement
  phase,              \* "new", "booked", "fresh" (harvesting job), "harvested",
                      \* "reharvested" (executeHarvestingOffline called again)
  aborted,            \* "" or the message of the failed assertion
  reftables,          \* tables/store of the same calls run without the cache
  refstore,
  refaborted,
  since,              \* fill calls per module since the last harvestPerEvent
  nfills,             \* fill calls per module
  nharv,              \* harvestPerEvent calls
  executed,           \* per program, the steps run by the stage-2 harvest
  calls               \* the executeStep1Spec calls of the last fill or
                      \* harvestPerEvent: the key and cache slot passed in,
                      \* whether the key was extracted for the call, and the
                      \* Table lookups (find, operator[]) the call made

vars == <<specs, enabled, bookUndefined, dimensions, iConfig, tables,
          significantvalues, fastpath, iq, store, phase, aborted,
          reftables, refstore, refaborted, since, nfills, nharv, executed,
          calls>>

config == <<specs, enabled, bookUndefined, dimensions, iConfig>>

(***************************************************************************)
(* HistogramManager::makePath                                              *)
(***************************************************************************)
shellname(v) ==
  IF v = 11 THEN "_mI" ELSE IF v = 12 THEN "_mO"
  ELSE IF v = 21 THEN "_pI" ELSE IF v = 22 THEN "_pO" ELSE ""

PathElement(c, v) ==
  LET nm == pretty(c)
      v0 == IF v = 0 THEN "" ELSE "_" \o ToString(v)
      v1 == IF nm = "PXDisk" /\ v > 0 THEN "_+" \o ToString(v) ELSE v0
      v2 == IF nm = "HalfCylinder" \/ nm = "Shell" THEN shellname(v) ELSE v1
      v3 == IF v = UNDEFINED THEN "_UNDEFINED" ELSE v2
  IN IF nm = "" THEN "" ELSE nm \o v3 \o "/"

RECURSIVE PathOfPairs(_)
PathOfPairs(ps) ==
  IF Len(ps) = 0 THEN ""
  ELSE PathElement(Head(ps)[1], Head(ps)[2]) \o PathOfPairs(Tail(ps))

makePath(sv, top) == top \o "/" \o PathOfPairs(PairsOf(sv))

(***************************************************************************)
(* HistogramManager::book                                                  *)
(***************************************************************************)
Stage1Stages == {"STAGE1", "STAGE1_2"}

\* the booking walk of one step
BookStep(step, b, cfg) ==
  CASE step.type = "SAVE" -> b
    [] step.type = "COUNT" ->
         [b EXCEPT !.dimensions = 0, !.name = "num_" \o @,
                   !.nx = 1, !.ny = 1, !.xmin2 = 0, !.ymin2 = 0,
                   !.xmax2 = 2, !.ymax2 = 2,
                   !.t = [TableAt(b.t, b.sv) EXCEPT ![b.sv].count = 0]]
    [] step.type = "EXTEND_X" ->
         IF Len(step.columns) = 0 THEN Abort(b, "columns.at: out_of_range")
         ELSE IF b.dimensions = 1 THEN Abort(b, "1D to 1D reduce NYI in step1")
         ELSE LET col0 == step.columns[1] IN
              [b EXCEPT !.dimensions = IF b.dimensions = 0 THEN 1 ELSE 2,
                        !.name = @ \o "_per_" \o pretty(col0),
                        !.xmin2 = 2 * minValue(col0) - 1,
                        !.xmax2 = 2 * maxValue(col0) + 1,
                        !.nx = ((2 * maxValue(col0) + 1) - (2 * minValue(col0) - 1)) \div 2,
                        !.sv = ValuesErase(b.sv, col0)]
    [] step.type = "EXTEND_Y" ->
         IF Len(step.columns) = 0 THEN Abort(b, "columns.at: out_of_range")
         ELSE IF b.dimensions = 2 THEN Abort(b, "2D to 2D reduce NYI in step1")
         ELSE LET col0 == step.columns[1] IN
              [b EXCEPT !.dimensions = 2,
                        !.name = @ \o "_per_" \o pretty(col0),
                        !.ymin2 = 2 * minValue(col0) - 1,
                        !.ymax2 = 2 * maxValue(col0) + 1,
                        !.ny = ((2 * maxValue(col0) + 1) - (2 * minValue(col0) - 1)) \div 2,
                        !.sv = ValuesErase(b.sv, col0)]
    [] step.type = "GROUPBY" ->
         IF b.dimensions # 0
         THEN Abort(b, "Only COUNT/GROUPBY with per-event harvesting allowed in step1")
         ELSE [b EXCEPT !.dimensions = 1,
                        !.nx = cfg.range_nbins,
                        !.xmin2 = cfg.range_min2, !.xmax2 = cfg.range_max2,
                        !.sv = ValuesProject(b.sv, step.columns)]
    [] OTHER -> Abort(b, "Operation not supported in step1.")

RECURSIVE BookWalk(_, _, _, _)
BookWalk(i, b, s, cfg) ==
  IF b.status # "run" \/ i > Len(s) THEN b
  ELSE IF s[i].stage \notin Stage1Stages THEN BookWalk(i + 1, b, s, cfg)
  ELSE BookWalk(i + 1, BookStep(s[i], b, cfg), s, cfg)

\* iBooker.book1D / book2D: a new (or reset) MonitorElement
BookME(st, handle, h) ==
  [p \in (DOMAIN st) \cup {handle} |->
     IF p = handle
     THEN [h |-> h, bookings |-> IF p \in DOMAIN st THEN st[p].bookings + 1 ELSE 1]
     ELSE st[p]]

\* booking without the test "if (histo.me) continue"
BookModule_Rebook(mod, m, s, cfg, dims, bookUndef) ==
  LET sv0 == extractColumns(s[1].columns, [sourceModule |-> mod])
      skip == ~bookUndef /\ \E c \in DOMAIN sv0 : sv0[c] = UNDEFINED
      b0 == [dimensions |-> dims, name |-> cfg.name,
             nx |-> cfg.range_nbins, xmin2 |-> cfg.range_min2,
             xmax2 |-> cfg.range_max2,
             ny |-> cfg.range_y_nbins, ymin2 |-> cfg.range_y_min2,
             ymax2 |-> cfg.range_y_max2,
             sv |-> sv0, t |-> m.t, status |-> "run", msg |-> ""]
      b == BookWalk(1, b0, s, cfg)
      t1 == TableAt(b.t, b.sv)
      handle == makePath(b.sv, cfg.top_folder_name) \o b.name
  IN IF skip THEN m
     ELSE IF b.status # "run" THEN [m EXCEPT !.aborted = b.msg]
     ELSE IF b.dimensions \in {0, 1}
     THEN [m EXCEPT !.t = [t1 EXCEPT ![b.sv].me = handle],
                    !.store = BookME(m.store, handle,
                                     NewTH1(b.name, b.nx, b.xmin2, b.xmax2))]
     ELSE [m EXCEPT !.t = [t1 EXCEPT ![b.sv].me = handle],
                    !.store = BookME(m.store, handle,
                                     NewTH2(b.name, b.nx, b.xmin2, b.xmax2,
                                            b.ny, b.ymin2, b.ymax2))]

\* the body of the loop over allModules for one module
BookModule(mod, m, s, cfg, dims, bookUndef) ==
  LET sv0 == extractColumns(s[1].columns, [sourceModule |-> mod])
      skip == ~bookUndef /\ \E c \in DOMAIN sv0 : sv0[c] = UNDEFINED
      b0 == [dimensions |-> dims, name |-> cfg.name,
             nx |-> cfg.range_nbins, xmin2 |-> cfg.range_min2,
             xmax2 |-> cfg.range_max2,
             ny |-> cfg.range_y_nbins, ymin2 |-> cfg.range_y_min2,
             ymax2 |-> cfg.range_y_max2,
             sv |-> sv0, t |-> m.t, status |-> "run", msg |-> ""]
      Booked(b, t1, handle) ==
        IF b.status # "run" THEN [m EXCEPT !.aborted = b.msg]
        ELSE IF t1[b.sv].me # NoME THEN [m EXCEPT !.t = t1]
        ELSE IF b.dimensions \in {0, 1}
        THEN [m EXCEPT !.t = [t1 EXCEPT ![b.sv].me = handle],
                       !.store = BookME(m.store, handle,
                                        NewTH1(b.name, b.nx, b.xmin2, b.xmax2))]
        ELSE IF b.dimensions = 2
        THEN [m EXCEPT !.t = [t1 EXCEPT ![b.sv].me = handle],
                       !.store = BookME(m.store, handle,
                                        NewTH2(b.name, b.nx, b.xmin2, b.xmax2,
                                               b.ny, b.ymin2, b.ymax2))]
        ELSE [m EXCEPT !.t = t1]
      Walked(b) ==
        Booked(b, TableAt(b.t, b.sv), makePath(b.sv, cfg.top_folder_name) \o b.name)
  IN IF skip THEN m ELSE Walked(BookWalk(1, b0, s, cfg))

RECURSIVE BookModules(_, _, _, _, _, _)
BookModules(j, m, s, cfg, dims, bookUndef) ==
  IF m.aborted # "" \/ j > Len(allModules) THEN m
  ELSE BookModules(j + 1, BookModule(allModules[j], m, s, cfg, dims, bookUndef),
                   s, cfg, dims, bookUndef)

\* the loop over specs; m = [ts, store, aborted]
RECURSIVE BookSpecs(_, _)
BookSpecs(i, m) ==
  IF m.aborted # "" \/ i > Len(specs) THEN m
  ELSE LET Merge(r) == [ts |-> [m.ts EXCEPT ![i] = r.t],
                        store |-> r.store, aborted |-> r.aborted]
       IN BookSpecs(i + 1,
            Merge(BookModules(1, [t |-> m.ts[i], store |-> m.store, aborted |-> ""],
                              specs[i], iConfig, dimensions, bookUndefined)))

book ==
  /\ phase = "new"
  /\ aborted = ""
  /\ LET m0 == [ts |-> tables, store |-> store, aborted |-> ""]
         Result(r) == /\ tables' = r.ts
                      /\ store' = r.store
                      /\ aborted' = r.aborted
     IN Result(IF enabled THEN BookSpecs(1, m0) ELSE m0)
  /\ reftables' = tables'
  /\ refstore' = store'
  /\ refaborted' = aborted'
  /\ phase' = "booked"
  /\ calls' = <<>>
  /\ UNCHANGED <<config, significantvalues, fastpath, iq, since, nfills, nharv,
                 executed>>

\* the iq member before the first fill: its sourceModule is DetId(), which
\* forces the first fill to re-extract whatever the other fields hold
NoIq == [sourceModule |-> NoDetId, sourceEvent |-> 0, col |-> 0, row |-> 0]

(***************************************************************************)
(* HistogramManager::fill                                                  *)
(***************************************************************************)
\* an identity test that leaves out the module
IsCached_IgnoreModule(id, iqv) ==
  ~(\/ id.col # iqv.col
    \/ id.row # iqv.row
    \/ id.sourceEvent # iqv.sourceEvent
    \/ id.sourceModule = NoDetId)

\* an identity test without the DetId(0) clause
IsCached_IgnoreNoModule(id, iqv) ==
  ~(\/ id.col # iqv.col
    \/ id.row # iqv.row
    \/ id.sourceModule # iqv.sourceModule
    \/ id.sourceEvent # iqv.sourceEvent)

\* the identity test of fill(): the stored iq can be reused
IsCached(id, iqv) ==
  ~(\/ id.col # iqv.col
    \/ id.row # iqv.row
    \/ id.sourceModule # iqv.sourceModule
    \/ id.sourceEvent # iqv.sourceEvent
    \/ id.sourceModule = NoDetId)

\* the record of one executeStep1Spec call for program i
Call(i, stage, sv, fp, extracted, lookups) ==
  [i |-> i, sv |-> sv, stage |-> stage, fp |-> fp, lookups |-> lookups,
   extracted |-> extracted]

\* the loop over specs; m = [ts, svs, fps, store, aborted, calls]
RECURSIVE FillSpecs(_, _, _, _, _, _)
FillSpecs(i, m, x, y, cached, iqv) ==
  IF m.aborted # "" \/ i > Len(specs) THEN m
  ELSE LET sv == IF cached THEN m.svs[i]
                 ELSE extractColumns(specs[i][1].columns, iqv)
           fp == IF cached THEN m.fps[i] ELSE NullPtr
           Merge(r) == [ts |-> [m.ts EXCEPT ![i] = r.t],
                        svs |-> [m.svs EXCEPT ![i] = r.sv],
                        fps |-> [m.fps EXCEPT ![i] = r.fp],
                        store |-> r.store,
                        aborted |-> IF r.status = "abort" THEN r.msg ELSE "",
                        calls |-> Append(m.calls, Call(i, "STAGE1", sv, fp, ~cached,
                                                   r.lookups))]
       IN FillSpecs(i + 1,
                    Merge(executeStep1Spec(x, y, sv, specs[i], m.ts[i], "STAGE1",
                                           fp, m.store, dimensions, bookUndefined)),
                    x, y, cached, iqv)

fill(x, y, id) ==
  /\ phase = "booked"
  /\ aborted = ""
  /\ LET cached == IsCached(id, iq)
         m0 == [ts |-> tables, svs |-> significantvalues, fps |-> fastpath,
                store |-> store, aborted |-> "", calls |-> <<>>]
         f0 == [ts |-> reftables, svs |-> significantvalues, fps |-> fastpath,
                store |-> refstore, aborted |-> refaborted, calls |-> <<>>]
         Result(r, f) == /\ tables' = r.ts
                         /\ significantvalues' = r.svs
                         /\ fastpath' = r.fps
                         /\ calls' = r.calls
                         /\ store' = r.store
                         /\ aborted' = r.aborted
                         /\ reftables' = f.ts
                         /\ refstore' = f.store
                         /\ refaborted' = f.aborted
     IN /\ iq' = IF enabled /\ ~cached THEN id ELSE iq
        /\ Result(IF enabled THEN FillSpecs(1, m0, x, y, cached, id) ELSE m0,
                  IF enabled THEN FillSpecs(1, f0, x, y, FALSE, id) ELSE f0)
  /\ since' = [since EXCEPT ![id.sourceModule] = @ + 1]
  /\ nfills' = [nfills EXCEPT ![id.sourceModule] = @ + 1]
  /\ UNCHANGED <<config, phase, nharv, executed>>

(***************************************************************************)
(* HistogramManager::executePerEventHarvesting                             *)
(***************************************************************************)
\* the loop over the entries of one table; m = [t, sv, store, aborted, calls]
RECURSIVE HarvestEntries(_, _, _, _)
HarvestEntries(keys, m, s, i) ==
  IF m.aborted # "" \/ Len(keys) = 0 THEN m
  ELSE LET k == Head(keys) IN
       IF k \in DOMAIN m.t /\ Cardinality(DOMAIN k) = Len(s[1].columns)
       THEN LET Merge(r) == [t |-> r.t, sv |-> r.sv, store |-> r.store,
                             aborted |-> IF r.status = "abort" THEN r.msg ELSE "",
                             calls |-> Append(m.calls,
                                              Call(i, "STAGE1_2", k,
                                                   CopyPtr(k, m.t[k]), FALSE,
                                                   r.lookups))]
            IN HarvestEntries(Tail(keys),
                              Merge(executeStep1Spec(0, 0, k, s, m.t, "STAGE1_2",
                                                     CopyPtr(k, m.t[k]), m.store,
                                                     dimensions, bookUndefined)),
                              s, i)
       ELSE HarvestEntries(Tail(keys), m, s, i)

\* the loop over specs; m = [ts, svs, store, aborted, calls]
RECURSIVE HarvestSpecs(_, _)
HarvestSpecs(i, m) ==
  IF m.aborted # "" \/ i > Len(specs) THEN m
  ELSE LET Merge(r) == [ts |-> [m.ts EXCEPT ![i] = r.t],
                        svs |-> [m.svs EXCEPT ![i] = r.sv],
                        store |-> r.store, aborted |-> r.aborted,
                        calls |-> r.calls]
       IN HarvestSpecs(i + 1,
            Merge(HarvestEntries(SortKeys(DOMAIN m.ts[i]),
                                 [t |-> m.ts[i], sv |-> m.svs[i],
                                  store |-> m.store, aborted |-> "",
                                  calls |-> m.calls],
                                 specs[i], i)))

executePerEventHarvesting ==
  /\ phase = "booked"
  /\ aborted = ""
  /\ LET m0 == [ts |-> tables, svs |-> significantvalues, store |-> store,
                aborted |-> "", calls |-> <<>>]
         f0 == [ts |-> reftables, svs |-> significantvalues, store |-> refstore,
                aborted |-> refaborted, calls |-> <<>>]
         Result(r, f) == /\ tables' = r.ts
                         /\ significantvalues' = r.svs
                         /\ calls' = r.calls
                         /\ store' = r.store
                         /\ aborted' = r.aborted
                         /\ reftables' = f.ts
                         /\ refstore' = f.store
                         /\ refaborted' = f.aborted
     IN Result(IF enabled THEN HarvestSpecs(1, m0) ELSE m0,
               IF enabled THEN HarvestSpecs(1, f0) ELSE f0)
  /\ since' = [mod \in DOMAIN since |-> 0]
  /\ nharv' = nharv + 1
  /\ UNCHANGED <<config, fastpath, iq, phase, nfills, executed>>

(***************************************************************************)
(* HistogramManager::loadFromDQMStore                                      *)
(***************************************************************************)
\* the reload walk without the "num_" prefix of COUNT
LoadStep_NoCountPrefix(step, b) ==
  CASE step.type \in {"SAVE", "COUNT"} -> b
    [] step.type \in {"EXTEND_X", "EXTEND_Y"} ->
         IF Len(step.columns) = 0 THEN Abort(b, "columns.at: out_of_range")
         ELSE [b EXCEPT !.name = @ \o "_per_" \o pretty(step.columns[1]),
                        !.sv = ValuesErase(b.sv, step.columns[1])]
    [] step.type = "GROUPBY" ->
         [b EXCEPT !.sv = ValuesProject(b.sv, step.columns)]
    [] OTHER -> Abort(b, "Illegal step; booking should have caught this.")

LoadStep(step, b) ==
  CASE step.type = "SAVE" -> b
    [] step.type = "COUNT" -> [b EXCEPT !.name = "num_" \o @]
    [] step.type \in {"EXTEND_X", "EXTEND_Y"} ->
         IF Len(step.columns) = 0 THEN Abort(b, "columns.at: out_of_range")
         ELSE [b EXCEPT !.name = @ \o "_per_" \o pretty(step.columns[1]),
                        !.sv = ValuesErase(b.sv, step.columns[1])]
    [] step.type = "GROUPBY" ->
         [b EXCEPT !.sv = ValuesProject(b.sv, step.columns)]
    [] OTHER -> Abort(b, "Illegal step; booking should have caught this.")

RECURSIVE LoadWalk(_, _, _)
LoadWalk(i, b, s) ==
  IF b.status # "run" \/ i > Len(s) THEN b
  ELSE IF s[i].stage \notin Stage1Stages THEN LoadWalk(i + 1, b, s)
  ELSE LoadWalk(i + 1, LoadStep(s[i], b), s)

\* the body of the loop over allModules; m = [t, aborted]
LoadModule(mod, m, s, cfg, st) ==
  LET b0 == [name |-> cfg.name,
             sv |-> extractColumns(s[1].columns, [sourceModule |-> mod]),
             status |-> "run", msg |-> ""]
      Loaded(b, path) ==
        IF b.status # "run" THEN [m EXCEPT !.aborted = b.msg]
        ELSE IF path \notin DOMAIN st THEN m
        ELSE [m EXCEPT !.t = [TableAt(m.t, b.sv) EXCEPT ![b.sv].me = path,
                                                       ![b.sv].th1 = METH1]]
      Walked(b) == Loaded(b, makePath(b.sv, cfg.top_folder_name) \o b.name)
  IN Walked(LoadWalk(1, b0, s))

RECURSIVE LoadModules(_, _, _, _, _)
LoadModules(j, m, s, cfg, st) ==
  IF m.aborted # "" \/ j > Len(allModules) THEN m
  ELSE LoadModules(j + 1, LoadModule(allModules[j], m, s, cfg, st), s, cfg, st)

loadFromDQMStore(s, t, cfg, st) ==
  LoadModules(1, [t |-> t, aborted |-> ""], s, cfg, st)

(***************************************************************************)
(* Stage-2 steps; each maps m = [t, store, aborted] to the same record     *)
(***************************************************************************)
\* the histogram e.second.th1 points to
ContentOf(e, st) == IF e.th1.kind = "me" THEN st[e.me].h ELSE e.th1.h

NullDeref == "null TH1 dereferenced"

\* executeSave without the skip of entries that hold a ME already
SaveEntry_NoSkip(k, m, cfg, bookUndef) ==
  LET e == m.t[k] IN
  IF bookUndef /\ e.th1.kind = "null"
  THEN [m EXCEPT !.aborted = "Missing histogram. Something is broken."]
  ELSE IF e.th1.kind = "null" THEN m
  ELSE LET h == ContentOf(e, m.store)
           handle == makePath(k, cfg.top_folder_name) \o h.name
           fresh == IF h.dim = 1
                    THEN NewTH1(h.name, h.nx, h.xmin2, h.xmax2)
                    ELSE NewTH2(h.name, h.nx, h.xmin2, h.xmax2,
                                h.ny, h.ymin2, h.ymax2)
       IN [m EXCEPT !.store = BookME(m.store, handle, TH1Add(fresh, h)),
                    !.t[k].me = handle,
                    !.t[k].th1 = METH1]

\* HistogramManager::executeSave, one entry
SaveEntry(k, m, cfg, bookUndef) ==
  LET e == m.t[k] IN
  IF e.me # NoME THEN m
  ELSE IF bookUndef /\ e.th1.kind = "null"
  THEN [m EXCEPT !.aborted = "Missing histogram. Something is broken."]
  ELSE IF e.th1.kind = "null" THEN m
  ELSE LET h == e.th1.h
           handle == makePath(k, cfg.top_folder_name) \o h.name
           fresh == IF h.dim = 1
                    THEN NewTH1(h.name, h.nx, h.xmin2, h.xmax2)
                    ELSE NewTH2(h.name, h.nx, h.xmin2, h.xmax2,
                                h.ny, h.ymin2, h.ymax2)
       IN [m EXCEPT !.store = BookME(m.store, handle, TH1Add(fresh, h)),
                    !.t[k].me = handle,
                    !.t[k].th1 = METH1]

RECURSIVE SaveEntries(_, _, _, _)
SaveEntries(keys, m, cfg, bookUndef) ==
  IF m.aborted # "" \/ Len(keys) = 0 THEN m
  ELSE SaveEntries(Tail(keys), SaveEntry(Head(keys), m, cfg, bookUndef),
                   cfg, bookUndef)

executeSave(step, m, cfg, bookUndef) ==
  SaveEntries(SortKeys(DOMAIN m.t), m, cfg, bookUndef)

\* executeGroupBy that replaces the histogram of a key instead of adding to it
GroupByEntry_Replace(k, o, step, t, st) ==
  LET e == t[k]
      new_vals == ValuesProject(k, step.columns)
      out1 == TableAt(o.out, new_vals)
  IN IF e.th1.kind = "null" THEN [o EXCEPT !.aborted = NullDeref]
     ELSE [o EXCEPT !.out = [out1 EXCEPT ![new_vals].th1 = OwnTH1(ContentOf(e, st))]]

\* HistogramManager::executeGroupBy, one entry; o = [out, aborted]
GroupByEntry(k, o, step, t, st) ==
  LET e == t[k]
      new_vals == ValuesProject(k, step.columns)
      out1 == TableAt(o.out, new_vals)
  IN IF e.th1.kind = "null" THEN [o EXCEPT !.aborted = NullDeref]
     ELSE IF out1[new_vals].th1.kind = "null"
     THEN [o EXCEPT !.out = [out1 EXCEPT ![new_vals].th1 = OwnTH1(ContentOf(e, st))]]
     ELSE [o EXCEPT !.out = [out1 EXCEPT ![new_vals].th1.h =
                                           TH1Add(@, ContentOf(e, st))]]

\* the loop of executeGroupBy over the entries in the order keys
RECURSIVE GroupByEntries(_, _, _, _, _)
GroupByEntries(keys, o, step, t, st) ==
  IF o.aborted # "" \/ Len(keys) = 0 THEN o
  ELSE GroupByEntries(Tail(keys), GroupByEntry(Head(keys), o, step, t, st),
                      step, t, st)

executeGroupBy(step, m) ==
  LET Swap(o) == IF o.aborted # "" THEN [m EXCEPT !.aborted = o.aborted]
                 ELSE [m EXCEPT !.t = o.out]
  IN Swap(GroupByEntries(SortKeys(DOMAIN m.t),
                         [out |-> EmptyTable, aborted |-> ""], step, m.t, m.store))

\* TH1::GetMean, from the bin centres, truncated (doubled value)
RECURSIVE WeightedSum(_, _)
WeightedSum(h, S) ==
  IF S = {} THEN 0
  ELSE LET i == CHOOSE j \in S : TRUE
           w == (h.xmax2 - h.xmin2)
           centre2 == h.xmin2 + ((2 * i - 1) * w) \div (2 * h.nx)
       IN GetBinContent1(h, i) * centre2 + WeightedSum(h, S \ {i})

GetMean(h) ==
  LET S == 1..h.nx
      n == SumOver([i \in S |-> GetBinContent1(h, i)], S)
  IN IF n = 0 THEN 0 ELSE (WeightedSum(h, S) \div n) \div 2

\* a reduction that takes the mean whatever the name is
ReduceEntry_AlwaysMean(k, o, step, t, st) ==
  LET e == t[k] IN
  IF e.th1.kind = "null" THEN [o EXCEPT !.aborted = NullDeref]
  ELSE LET th1 == ContentOf(e, st)
           new_th1 == TH1SetBinContent(NewTH1("mean_" \o th1.name, 1, 0, 2), 1,
                                       GetMean(th1))
       IN [o EXCEPT !.out = [TableAt(o.out, k) EXCEPT ![k].th1 = OwnTH1(new_th1)]]

\* HistogramManager::executeReduce, one entry
ReduceEntry(k, o, step, t, st) ==
  LET e == t[k] IN
  IF e.th1.kind = "null" THEN [o EXCEPT !.aborted = NullDeref]
  ELSE LET th1 == ContentOf(e, st)
           reduced_quantity ==
             IF step.arg = "MEAN" THEN GetMean(th1)
             ELSE IF step.arg = "COUNT" THEN th1.entries
             ELSE 0
           name == IF step.arg = "MEAN" THEN "mean_" \o th1.name
                   ELSE IF step.arg = "COUNT" THEN "num_" \o th1.name
                   ELSE th1.name
           new_th1 == TH1SetBinContent(NewTH1(name, 1, 0, 2), 1, reduced_quantity)
       IN [o EXCEPT !.out = [TableAt(o.out, k) EXCEPT ![k].th1 = OwnTH1(new_th1)]]

RECURSIVE ReduceEntries(_, _, _, _, _)
ReduceEntries(keys, o, step, t, st) ==
  IF o.aborted # "" \/ Len(keys) = 0 THEN o
  ELSE ReduceEntries(Tail(keys), ReduceEntry(Head(keys), o, step, t, st),
                     step, t, st)

executeReduce(step, m) ==
  LET Swap(o) == IF o.aborted # "" THEN [m EXCEPT !.aborted = o.aborted]
                 ELSE [m EXCEPT !.t = o.out]
  IN Swap(ReduceEntries(SortKeys(DOMAIN m.t),
                        [out |-> EmptyTable, aborted |-> ""], step, m.t, m.store))

(***************************************************************************)
(* HistogramManager::executeExtend                                         *)
(***************************************************************************)
\* first pass: the number of bins per resulting key; o = [nbins, aborted]
RECURSIVE ExtendCountBins(_, _, _, _, _, _)
ExtendCountBins(keys, o, col, t, st, isX) ==
  IF o.aborted # "" \/ Len(keys) = 0 THEN o
  ELSE LET k == Head(keys)
           new_vals == ValuesErase(k, col)
           old == IF new_vals \in DOMAIN o.nbins THEN o.nbins[new_vals] ELSE 0
           th1 == ContentOf(t[k], st)
           n == old + (IF isX THEN th1.nx ELSE th1.ny)
       IN IF t[k].th1.kind = "null"
          THEN [o EXCEPT !.aborted = "invalid histogram"]
          ELSE ExtendCountBins(Tail(keys),
                 [o EXCEPT !.nbins = [kk \in (DOMAIN o.nbins) \cup {new_vals} |->
                                        IF kk = new_vals THEN n ELSE o.nbins[kk]]],
                 col, t, st, isX)

\* the copy loops; c = [h, count] is the output histogram and its cursor
RECURSIVE ExtendCopy1D(_, _, _)
ExtendCopy1D(i, c, th1) ==
  IF i > th1.nx THEN c
  ELSE ExtendCopy1D(i + 1,
         [h |-> TH1SetBinContent(c.h, c.count, GetBinContent1(th1, i)),
          count |-> c.count + 1], th1)

RECURSIVE ExtendCopyColumn(_, _, _, _, _)
ExtendCopyColumn(i, j, c, th1, isX) ==
  IF (isX /\ j > th1.ny) \/ (~isX /\ i > th1.nx) THEN c
  ELSE ExtendCopyColumn(IF isX THEN i ELSE i + 1, IF isX THEN j + 1 ELSE j,
         [c EXCEPT !.h = TH1SetBinContent(c.h,
                            IF isX THEN <<c.count, j>> ELSE <<i, c.count>>,
                            GetBinContent2(th1, i, j))],
         th1, isX)

RECURSIVE ExtendCopy2D(_, _, _, _)
ExtendCopy2D(n, c, th1, isX) ==
  IF n > (IF isX THEN th1.nx ELSE th1.ny) THEN c
  ELSE LET c1 == IF isX THEN ExtendCopyColumn(n, 1, c, th1, isX)
                 ELSE ExtendCopyColumn(1, n, c, th1, isX)
       IN ExtendCopy2D(n + 1, [c1 EXCEPT !.count = @ + 1], th1, isX)

\* the histogram booked for a resulting key
ExtendNew(th1, n, isX) ==
  IF th1.dim = 1 /\ isX THEN NewTH1(th1.name, n, 1, 2 * n + 1)
  ELSE IF isX THEN NewTH2(th1.name, n, 1, 2 * n + 1, th1.ny, 1, 2 * th1.ny + 1)
  ELSE NewTH2(th1.name, th1.nx, 1, 2 * th1.nx + 1, n, 1, 2 * n + 1)

\* the second pass with the fill cursor restarted at 1 for every input
ExtendEntry_Restart(k, o, col, t, st, isX, nbins) ==
  LET th1 == ContentOf(t[k], st)
      new_vals == ValuesErase(k, col)
      out1 == TableAt(o.out, new_vals)
      isNew == out1[new_vals].th1.kind = "null"
      c0 == IF isNew
            THEN [h |-> ExtendNew(th1, nbins[new_vals], isX), count |-> 1]
            ELSE [h |-> out1[new_vals].th1.h, count |-> 1]
      c1 == IF c0.h.dim = 1 THEN ExtendCopy1D(1, c0, th1)
            ELSE ExtendCopy2D(1, c0, th1, isX)
  IN [o EXCEPT !.out = [out1 EXCEPT ![new_vals].th1 = OwnTH1(c1.h),
                                    ![new_vals].count = c1.count]]

\* second pass, one entry; o = [out, aborted]
ExtendEntry(k, o, col, t, st, isX, nbins) ==
  LET th1 == ContentOf(t[k], st)
      new_vals == ValuesErase(k, col)
      out1 == TableAt(o.out, new_vals)
      isNew == out1[new_vals].th1.kind = "null"
      c0 == IF isNew
            THEN [h |-> ExtendNew(th1, nbins[new_vals], isX), count |-> 1]
            ELSE [h |-> out1[new_vals].th1.h, count |-> out1[new_vals].count]
      Copy(c) == IF c.h.dim = 1 THEN ExtendCopy1D(1, c, th1)
                 ELSE ExtendCopy2D(1, c, th1, isX)
      Put(c1) == [o EXCEPT !.out = [out1 EXCEPT ![new_vals].th1 = OwnTH1(c1.h),
                                                ![new_vals].count = c1.count]]
  IN Put(Copy(c0))

RECURSIVE ExtendEntries(_, _, _, _, _, _, _)
ExtendEntries(keys, o, col, t, st, isX, nbins) ==
  IF o.aborted # "" \/ Len(keys) = 0 THEN o
  ELSE ExtendEntries(Tail(keys),
                     ExtendEntry(Head(keys), o, col, t, st, isX, nbins),
                     col, t, st, isX, nbins)

executeExtend(step, m, isX) ==
  IF Len(step.columns) = 0 /\ DOMAIN m.t # {}
  THEN [m EXCEPT !.aborted = "columns.at: out_of_range"]
  ELSE IF DOMAIN m.t = {} THEN m
  ELSE LET col == step.columns[1]
           keys == SortKeys(DOMAIN m.t)
           Swap(p2) == IF p2.aborted # "" THEN [m EXCEPT !.aborted = p2.aborted]
                       ELSE [m EXCEPT !.t = p2.out]
           Second(p1) ==
             IF p1.aborted # "" THEN [m EXCEPT !.aborted = p1.aborted]
             ELSE Swap(ExtendEntries(keys, [out |-> EmptyTable, aborted |-> ""],
                                     col, m.t, m.store, isX, p1.nbins))
       IN Second(ExtendCountBins(keys, [nbins |-> [k \in {} |-> 0], aborted |-> ""],
                                 col, m.t, m.store, isX))

(***************************************************************************)
(* HistogramManager::executeHarvestingOffline                              *)
(***************************************************************************)
\* one step of the switch; no customHandler is installed
Stage2Step(step, m, cfg, bookUndef) ==
  CASE step.type = "SAVE" -> executeSave(step, m, cfg, bookUndef)
    [] step.type = "GROUPBY" -> executeGroupBy(step, m)
    [] step.type = "REDUCE" -> executeReduce(step, m)
    [] step.type = "EXTEND_X" -> executeExtend(step, m, TRUE)
    [] step.type = "EXTEND_Y" -> executeExtend(step, m, FALSE)
    [] step.type = "CUSTOM" -> m
    [] OTHER -> [m EXCEPT !.aborted = "Operation not supported in harvesting."]

\* the loop over s.steps without the test of the step's stage
RECURSIVE Stage2Walk_AnyStage(_, _, _, _, _)
Stage2Walk_AnyStage(i, m, s, cfg, bookUndef) ==
  IF m.aborted # "" \/ i > Len(s) THEN m
  ELSE Stage2Walk_AnyStage(i + 1,
         [Stage2Step(s[i], m, cfg, bookUndef) EXCEPT !.done = Append(@, s[i])],
         s, cfg, bookUndef)

\* the loop over s.steps; m = [t, store, aborted, done]
RECURSIVE Stage2Walk(_, _, _, _, _)
Stage2Walk(i, m, s, cfg, bookUndef) ==
  IF m.aborted # "" \/ i > Len(s) THEN m
  ELSE IF s[i].stage # "STAGE2" THEN Stage2Walk(i + 1, m, s, cfg, bookUndef)
  ELSE Stage2Walk(i + 1,
                  [Stage2Step(s[i], m, cfg, bookUndef) EXCEPT !.done = Append(@, s[i])],
                  s, cfg, bookUndef)

\* the loop over specs; m = [ts, store, aborted, done]
RECURSIVE HarvestOfflineSpecs(_, _)
HarvestOfflineSpecs(i, m) ==
  IF m.aborted # "" \/ i > Len(specs) THEN m
  ELSE LET Loaded(l) == [t |-> l.t, store |-> m.store, aborted |-> l.aborted,
                         done |-> <<>>]
           Merge(r) == [ts |-> [m.ts EXCEPT ![i] = r.t], store |-> r.store,
                        aborted |-> r.aborted,
                        done |-> [m.done EXCEPT ![i] = r.done]]
       IN HarvestOfflineSpecs(i + 1,
            Merge(Stage2Walk(1,
                    Loaded(loadFromDQMStore(specs[i], m.ts[i], iConfig, m.store)),
                    specs[i], iConfig, bookUndefined)))

executeHarvestingOffline ==
  /\ phase \in {"booked", "fresh", "harvested"}
  /\ aborted = ""
  /\ LET m0 == [ts |-> tables, store |-> store, aborted |-> "",
                done |-> [i \in DOMAIN specs |-> <<>>]]
         Result(r) == /\ tables' = r.ts
                      /\ store' = r.store
                      /\ aborted' = r.aborted
                      /\ executed' = r.done
     IN Result(IF enabled THEN HarvestOfflineSpecs(1, m0) ELSE m0)
  /\ reftables' = tables'
  /\ refstore' = store'
  /\ refaborted' = aborted'
  /\ phase' = IF phase = "harvested" THEN "reharvested" ELSE "harvested"
  /\ calls' = <<>>
  /\ UNCHANGED <<config, significantvalues, fastpath, iq, since, nfills, nharv>>

\* the constructor run again by the harvesting job: a new Manager of the same
\* configuration over the persisted DQMStore
HistogramManager ==
  /\ phase = "booked"
  /\ aborted = ""
  /\ tables' = [i \in DOMAIN specs |-> EmptyTable]
  /\ significantvalues' = [i \in DOMAIN specs |-> NoValues]
  /\ fastpath' = [i \in DOMAIN specs |-> NullPtr]
  /\ iq' = NoIq
  /\ phase' = "fresh"
  /\ reftables' = tables'
  /\ calls' = <<>>
  /\ UNCHANGED <<config, store, aborted, refstore, refaborted,
                 since, nfills, nharv, executed>>

(***************************************************************************)
(* Programs and configurations                                             *)
(***************************************************************************)
Seed(columns) == Step("GROUPBY", "FIRST", columns, "")
SaveStage2 == Step("SAVE", "STAGE2", <<>>, "")

ProgPlain == <<Seed(<<PXLayer, PXLadder>>), SaveStage2>>

ProgCountExtendX ==
  <<Seed(<<PXLayer, PXLadder>>), Step("COUNT", "STAGE1", <<>>, ""),
    Step("EXTEND_X", "STAGE1", <<PXLadder>>, ""), SaveStage2>>

ProgCountExtendXY ==
  <<Seed(<<PXLayer, PXLadder>>), Step("COUNT", "STAGE1", <<>>, ""),
    Step("EXTEND_X", "STAGE1", <<PXLadder>>, ""),
    Step("EXTEND_Y", "STAGE1", <<PXLayer>>, ""), SaveStage2>>

ProgCountGroupBy ==
  <<Seed(<<PXLayer, PXLadder>>), Step("COUNT", "STAGE1", <<>>, ""),
    Step("GROUPBY", "STAGE1_2", <<PXLayer>>, ""), SaveStage2>>

ProgCountGroupByLayer ==
  <<Seed(<<PXLayer>>), Step("COUNT", "STAGE1", <<>>, ""),
    Step("GROUPBY", "STAGE1_2", <<PXLayer>>, ""), SaveStage2>>

\* COUNT and GROUPBY both tagged PER_EVENT_HARVEST
ProgCountAtHarvest ==
  <<Seed(<<PXLayer, PXLadder>>), Step("COUNT", "STAGE1_2", <<>>, ""),
    Step("GROUPBY", "STAGE1_2", <<PXLayer>>, ""), SaveStage2>>

\* per-event counting per layer, summed over the layers at harvest
ProgCountGroupBySum ==
  <<Seed(<<PXLayer, PXLadder>>), Step("COUNT", "STAGE1", <<>>, ""),
    Step("GROUPBY", "STAGE1_2", <<PXLayer>>, ""),
    Step("GROUPBY", "STAGE2", <<>>, ""), SaveStage2>>

\* COUNT as the last step of a program
ProgCountLast == <<Seed(<<PXLayer, PXLadder>>), Step("COUNT", "STAGE1", <<>>, "")>>

\* EXTEND_X without a COUNT before it
ProgExtendXOnly ==
  <<Seed(<<PXLayer, PXLadder>>), Step("EXTEND_X", "STAGE1", <<PXLadder>>, ""),
    SaveStage2>>

\* harvesting only: the ladders of a layer side by side along y
ProgExtendYHarvest ==
  <<Seed(<<PXLayer, PXLadder>>), Step("EXTEND_Y", "STAGE2", <<PXLadder>>, ""),
    SaveStage2>>

\* harvesting steps the switch of executeHarvestingOffline rejects
ProgCountHarvest ==
  <<Seed(<<PXLayer, PXLadder>>), Step("GROUPBY", "STAGE2", <<PXLayer>>, ""),
    Step("COUNT", "STAGE2", <<>>, ""), SaveStage2>>

ProgUntypedHarvest ==
  <<Seed(<<PXLayer, PXLadder>>), Step("NO_TYPE", "STAGE2", <<>>, ""), SaveStage2>>

\* the configurations explored: the programs of a Manager and its
\* "dimensions" parameter (0 for the counting plots)
ManagerConfigs ==
  { <<(<<ProgPlain>>), 1>>, <<(<<ProgPlain>>), 2>>,
    <<(<<ProgCountExtendX>>), 0>>, <<(<<ProgCountExtendXY>>), 0>>,
    <<(<<ProgCountGroupBy>>), 0>>, <<(<<ProgCountGroupByLayer>>), 0>>,
    <<(<<ProgCountExtendX, ProgCountGroupBy>>), 0>>,
    <<(<<ProgExtendYHarvest>>), 1>>,
    <<(<<ProgCountHarvest>>), 1>>, <<(<<ProgUntypedHarvest>>), 1>>,
    <<(<<ProgCountLast>>), 0>>, <<(<<ProgExtendXOnly>>), 2>>,
    <<(<<ProgCountAtHarvest>>), 0>>, <<(<<ProgCountGroupBySum>>), 0>> }

\* iconfig: range_min = -0.5, range_max = 3.5, 4 bins (the values 0..3)
DefaultConfig ==
  [name |-> "digis",
   range_nbins |-> 4, range_min2 |-> -1, range_max2 |-> 7,
   range_y_nbins |-> 2, range_y_min2 |-> -1, range_y_max2 |-> 3,
   top_folder_name |-> "PixelPhase1"]

SourceModules == {NoDetId} \cup Range(allModules)

\* the source identities of the fill calls
FillIds ==
  {[sourceModule |-> mod, sourceEvent |-> 1, col |-> 0, row |-> 0] :
     mod \in SourceModules}
  \cup {[sourceModule |-> 1, sourceEvent |-> 1, col |-> 0, row |-> 1]}

FillValues == {<<0, 0>>, <<1, 1>>}

\* the state after the constructor and addSpec
Constructed ==
  /\ tables = [i \in DOMAIN specs |-> EmptyTable]
  /\ significantvalues = [i \in DOMAIN specs |-> NoValues]
  /\ fastpath = [i \in DOMAIN specs |-> NullPtr]
  /\ iq = NoIq

Init ==
  /\ \E mc \in ManagerConfigs : specs = mc[1] /\ dimensions = mc[2]
  /\ enabled \in BOOLEAN
  /\ bookUndefined \in BOOLEAN
  /\ iConfig = DefaultConfig
  /\ Constructed
  /\ store = [p \in {} |-> 0]
  /\ phase = "new"
  /\ aborted = ""
  /\ reftables = tables
  /\ refstore = store
  /\ refaborted = ""
  /\ since = [mod \in SourceModules |-> 0]
  /\ nfills = [mod \in SourceModules |-> 0]
  /\ nharv = 0
  /\ executed = [i \in DOMAIN specs |-> <<>>]
  /\ calls = <<>>

TotalFills == SumOver(nfills, DOMAIN nfills)

Fill ==
  /\ TotalFills < MaxFills
  /\ \E id \in FillIds : \E v \in FillValues : fill(v[1], v[2], id)

HarvestPerEvent ==
  /\ nharv < MaxHarvests
  /\ executePerEventHarvesting

Next ==
  \/ book
  \/ Fill
  \/ HarvestPerEvent
  \/ HistogramManager
  \/ executeHarvestingOffline

Spec == Init /\ [][Next]_vars


(***************************************************************************)
(* The end-to-end example: COUNT, GROUPBY(layer) per event, SAVE           *)
(***************************************************************************)
E2ELayer1Fills == 5
E2ELayer2Fills == 3

\* range_min = -0.5, range_max = 7.5, 8 bins (the values 0..7)
E2EConfig ==
  [name |-> "digis",
   range_nbins |-> 8, range_min2 |-> -1, range_max2 |-> 15,
   range_y_nbins |-> 2, range_y_min2 |-> -1, range_y_max2 |-> 3,
   top_folder_name |-> "PixelPhase1"]

InitE2E ==
  /\ specs = <<ProgCountGroupByLayer>>
  /\ dimensions = 0
  /\ enabled = TRUE
  /\ bookUndefined \in BOOLEAN
  /\ iConfig = E2EConfig
  /\ Constructed
  /\ store = [p \in {} |-> 0]
  /\ phase = "new"
  /\ aborted = ""
  /\ reftables = tables
  /\ refstore = store
  /\ refaborted = ""
  /\ since = [mod \in SourceModules |-> 0]
  /\ nfills = [mod \in SourceModules |-> 0]
  /\ nharv = 0
  /\ executed = [i \in DOMAIN specs |-> <<>>]
  /\ calls = <<>>

LayerFills(layer) ==
  SumOver(nfills, {mod \in Range(allModules) : ColumnValue(mod, PXLayer) = layer})

FillE2E ==
  \E id \in FillIds :
    /\ id.sourceModule # NoDetId
    /\ LayerFills(ColumnValue(id.sourceModule, PXLayer)) <
         (IF ColumnValue(id.sourceModule, PXLayer) = 1
          THEN E2ELayer1Fills ELSE E2ELayer2Fills)
    /\ fill(0, 0, id)

NextE2E ==
  \/ book
  \/ FillE2E
  \/ HarvestPerEvent
  \/ HistogramManager
  \/ executeHarvestingOffline

SpecE2E == InitE2E /\ [][NextE2E]_vars

(***************************************************************************)
(* The stage-2 steps applied to reloaded tables                            *)
(***************************************************************************)
MaxSteps == 3

\* range_min = -0.5, range_max = 1.5, 2 bins (the values 0 and 1)
Stage2Config ==
  [name |-> "digis",
   range_nbins |-> 2, range_min2 |-> -1, range_max2 |-> 3,
   range_y_nbins |-> 2, range_y_min2 |-> -1, range_y_max2 |-> 3,
   top_folder_name |-> "PixelPhase1"]

\* the numbers of samples of the values 0 and 1 a histogram received in stage 1
Stage2Contents == {<<1, 0>>, <<0, 2>>}

RECURSIVE FillTimes(_, _, _)
FillTimes(h, x, n) == IF n = 0 THEN h ELSE FillTimes(TH1Fill(h, x, 0), x, n - 1)

\* the store a booked Manager left behind after filling
FilledStore(booked, f) ==
  [p \in DOMAIN booked |->
     [booked[p] EXCEPT !.h = FillTimes(FillTimes(@, 0, f[p][1]), 1, f[p][2])]]

InitStage2 ==
  /\ specs = <<ProgPlain>>
  /\ dimensions = 1
  /\ enabled = TRUE
  /\ bookUndefined \in BOOLEAN
  /\ iConfig = Stage2Config
  /\ Constructed
  /\ LET booked == BookSpecs(1, [ts |-> tables, store |-> [p \in {} |-> 0],
                                 aborted |-> ""]).store
     IN \E f \in [DOMAIN booked -> Stage2Contents] : store = FilledStore(booked, f)
  /\ phase = "fresh"
  /\ aborted = ""
  /\ reftables = tables
  /\ refstore = store
  /\ refaborted = ""
  /\ since = [mod \in SourceModules |-> 0]
  /\ nfills = [mod \in SourceModules |-> 0]
  /\ nharv = 0
  /\ executed = [i \in DOMAIN specs |-> <<>>]
  /\ calls = <<>>

\* loadFromDQMStore, as the first thing executeHarvestingOffline does
Load ==
  /\ phase = "fresh"
  /\ aborted = ""
  /\ LET Result(l) == /\ tables' = [tables EXCEPT ![1] = l.t]
                      /\ aborted' = l.aborted
     IN Result(loadFromDQMStore(specs[1], tables[1], iConfig, store))
  /\ phase' = "stage2"
  /\ reftables' = tables'
  /\ UNCHANGED <<config, significantvalues, fastpath, iq, store, refstore,
                 refaborted, since, nfills, nharv, executed, calls>>

\* one POST_RUN step of the program applied to the table
Exec(step) ==
  /\ phase = "stage2"
  /\ aborted = ""
  /\ Len(executed[1]) < MaxSteps
  /\ LET Result(r) == /\ tables' = [tables EXCEPT ![1] = r.t]
                      /\ store' = r.store
                      /\ aborted' = r.aborted
     IN Result(Stage2Step(step, [t |-> tables[1], store |-> store, aborted |-> ""],
                          iConfig, bookUndefined))
  /\ executed' = [executed EXCEPT ![1] = Append(@, step)]
  /\ reftables' = tables'
  /\ refstore' = store'
  /\ UNCHANGED <<config, significantvalues, fastpath, iq, phase, refaborted,
                 since, nfills, nharv, calls>>

ColumnLists == {<<>>, <<PXLayer>>, <<PXLadder>>, <<PXLayer, PXLadder>>}

ExecSave == Exec(Step("SAVE", "STAGE2", <<>>, ""))

ExecGroupBy == \E cols \in ColumnLists : Exec(Step("GROUPBY", "STAGE2", cols, ""))

ExecReduce ==
  \E arg \in {"MEAN", "COUNT", "RMS"} : Exec(Step("REDUCE", "STAGE2", <<>>, arg))

ExecExtend ==
  \E c \in {PXLayer, PXLadder} : \E type \in {"EXTEND_X", "EXTEND_Y"} :
    Exec(Step(type, "STAGE2", <<c>>, ""))

NextStage2 ==
  \/ Load
  \/ ExecSave
  \/ ExecGroupBy
  \/ ExecReduce
  \/ ExecExtend

SpecStage2 == InitStage2 /\ [][NextStage2]_vars

(***************************************************************************)
(* Properties                                                              *)
(***************************************************************************)
IsBookStep == phase = "new" /\ phase' = "booked"
IsFillStep == phase = "booked" /\ nfills' # nfills
IsHarvestStep == phase = "booked" /\ nharv' = nharv + 1

UnitBins(h, b0) == [b \in DOMAIN h.bins |-> IF b = b0 THEN 1 ELSE 0]

\* C1: for every program and every sequence of fill calls, filling with the
\* cached key and cache slot leaves every Table (and the histograms bound in
\* it) in the same state as the same calls with re-extraction and a null
\* cache slot on every call.
CacheIsPureOptimization ==
  phase = "booked" =>
    (tables = reftables /\ store = refstore /\ aborted = refaborted)

\* a program with COUNT at PER_EVENT directly followed by GROUPBY at
\* PER_EVENT_HARVEST
IsCountGroupBy(s) ==
  \E j \in 1..(Len(s) - 1) :
    /\ s[j].type = "COUNT" /\ s[j].stage = "STAGE1"
    /\ s[j + 1].type = "GROUPBY" /\ s[j + 1].stage = "STAGE1_2"

GroupColumns(s) ==
  s[CHOOSE j \in 2..Len(s) : s[j].type = "GROUPBY" /\ s[j].stage = "STAGE1_2"].columns

CounterKeys(s, t) == {k \in DOMAIN t : Cardinality(DOMAIN k) = Len(s[1].columns)}

\* the fill calls since the last harvestPerEvent whose seed key is k
FillsSince(s, k) ==
  SumOver(since, {mod \in SourceModules :
                    extractColumns(s[1].columns, [sourceModule |-> mod]) = k})

\* C2: with COUNT at PER_EVENT directly followed by GROUPBY at
\* PER_EVENT_HARVEST, every harvestPerEvent call fills the Histogram of each
\* grouped key once per counter key that projects onto it, with the number of
\* fill calls for that counter key since the previous harvestPerEvent, and
\* leaves every Counter at 0.
HarvestFillsOncePerCounter ==
  [][\A i \in DOMAIN specs :
       (enabled /\ IsCountGroupBy(specs[i]) /\ IsHarvestStep /\ aborted' = "") =>
         LET s == specs[i]
             t == tables[i]
             ck == CounterKeys(s, t)
         IN /\ \A k \in ck : tables'[i][k].count = 0
            /\ \A g \in DOMAIN t :
                 t[g].me # NoME =>
                   LET h == store[t[g].me].h
                       h2 == store'[t[g].me].h
                       src == {k \in ck : ValuesProject(k, GroupColumns(s)) = g}
                   IN /\ h2.bins =
                           [b \in DOMAIN h.bins |->
                              h.bins[b] +
                              Cardinality({k \in src :
                                FindBin(h.nx, h.xmin2, h.xmax2,
                                        2 * FillsSince(s, k)) = b})]
                      /\ h2.entries = h.entries + Cardinality(src)]_vars

\* C2 witness: a harvest has put a count of two fills into a histogram
HarvestedCountOfTwo ==
  /\ enabled /\ specs = <<ProgCountGroupBy>> /\ phase = "booked"
  /\ aborted = "" /\ nharv >= 1
  /\ \A mod \in SourceModules : since[mod] = 0
  /\ \E p \in DOMAIN store :
       store[p].h.bins[FindBin(store[p].h.nx, store[p].h.xmin2,
                               store[p].h.xmax2, 4)] > 0

E2EDone ==
  /\ phase = "harvested" /\ aborted = ""
  /\ LayerFills(1) = 5 /\ LayerFills(2) = 3
  /\ nharv = 1
  /\ \A mod \in SourceModules : since[mod] = 0

LayerKey(v) == [c \in {PXLayer} |-> v]

\* C3: [COUNT, GROUPBY(layer) per event, SAVE]: after 5 samples of layer 1
\* and 3 of layer 2, one harvestPerEvent and one stage-2 harvest, the Table
\* has exactly the keys layer=1 and layer=2, whose distributions hold one
\* entry at the value 5 and one entry at the value 3.
E2EResult ==
  E2EDone =>
    LET t == tables[1] IN
    /\ DOMAIN t = {LayerKey(1), LayerKey(2)}
    /\ \A k \in DOMAIN t : t[k].me \in DOMAIN store /\ t[k].th1.kind = "me"
    /\ LET h1 == store[t[LayerKey(1)].me].h
           h2 == store[t[LayerKey(2)].me].h
       IN /\ h1.bins = UnitBins(h1, FindBin(h1.nx, h1.xmin2, h1.xmax2, 10))
          /\ h1.entries = 1
          /\ h2.bins = UnitBins(h2, FindBin(h2.nx, h2.xmin2, h2.xmax2, 6))
          /\ h2.entries = 1
          /\ FindBin(h1.nx, h1.xmin2, h1.xmax2, 10) = 6
          /\ FindBin(h2.nx, h2.xmin2, h2.xmax2, 6) = 4

\* C3 witness: the example has run to its end
E2EHarvested == E2EDone /\ DOMAIN tables[1] # {}

\* the step walk of program i in the fill call of this step
FillWalk(i, x, y) ==
  LET cached == IsCached(iq', iq)
      sv == IF cached THEN significantvalues[i]
            ELSE extractColumns(specs[i][1].columns, iq')
      fp == IF cached THEN fastpath[i] ELSE NullPtr
  IN Step1Walk(1, [x |-> x, y |-> y, dimensions |-> dimensions, sv |-> sv,
                   t |-> tables[i], fp |-> fp, store |-> store,
                   status |-> "run", msg |-> "", lookups |-> 0], specs[i], "STAGE1")

Unbooked(t, k) == k \notin DOMAIN t \/ ~IsBound(t[k])

\* the histograms bound in a table
HandlesOf(t) == {t[k].me : k \in {kk \in DOMAIN t : t[kk].me # NoME}}

\* C4: when the step walk ends with a null cache slot and the final Key has
\* no Table entry or an unbound one: with bookUndefined the call aborts;
\* without it the sample is dropped: no entry is created, no accumulator
\* changes and the cache slot stays null.
DroppedOrFatal ==
  [][/\ (enabled /\ IsFillStep) =>
          \A v \in FillValues :
            fill(v[1], v[2], iq') =>
              \A i \in DOMAIN specs :
                LET w == FillWalk(i, v[1], v[2]) IN
                (w.status = "run" /\ w.fp.kind = "null" /\ Unbooked(w.t, w.sv)) =>
                  /\ bookUndefined => aborted' # ""
                  /\ (~bookUndefined /\ Len(specs) = 1) => aborted' = ""
                  /\ (~bookUndefined /\ aborted' = "") =>
                       /\ tables'[i] = tables[i]
                       /\ fastpath'[i] = NullPtr
                       /\ \A p \in HandlesOf(tables[i]) : store'[p] = store[p]
     /\ (enabled /\ IsHarvestStep) =>
          \A i \in DOMAIN specs :
            IsCountGroupBy(specs[i]) =>
              LET t == tables[i]
                  final(k) == ValuesProject(k, GroupColumns(specs[i]))
                  ck == CounterKeys(specs[i], t)
                  unb == {k \in ck : Unbooked(t, final(k))}
              IN /\ (bookUndefined /\ unb # {}) => aborted' # ""
                 /\ (~bookUndefined /\ aborted' = "") =>
                      /\ DOMAIN tables'[i] = DOMAIN t
                      /\ \A p \in HandlesOf(t) \ {t[final(k)].me : k \in ck \ unb} :
                           store'[p] = store[p]]_vars

\* C4 witness: a sample of the "no module" source was dropped
SampleDropped ==
  /\ enabled /\ ~bookUndefined /\ specs = <<ProgPlain>>
  /\ phase = "booked" /\ aborted = ""
  /\ nfills[NoDetId] > 0
  /\ Unbooked(tables[1], extractColumns(specs[1][1].columns,
                                        [sourceModule |-> NoDetId]))

BoundKeys(t) == {k \in DOMAIN t : IsBound(t[k])}

\* C5: after booking, fill and harvestPerEvent never change the set of keys
\* with a bound Histogram; they only create unbound Counter entries and never
\* bind or unbind a Histogram.
Stage1KeepsBoundKeys ==
  [][(phase = "booked" /\ phase' = "booked") =>
       \A i \in DOMAIN specs :
         /\ BoundKeys(tables'[i]) = BoundKeys(tables[i])
         /\ DOMAIN tables[i] \subseteq DOMAIN tables'[i]
         /\ \A k \in DOMAIN tables[i] :
              /\ tables'[i][k].me = tables[i][k].me
              /\ tables'[i][k].th1 = tables[i][k].th1
         /\ DOMAIN store' = DOMAIN store]_vars

\* C5 witness: stage 1 has created the Counter of an unbooked source
CounterCreatedLazily ==
  /\ enabled /\ phase = "booked" /\ aborted = ""
  /\ \E i \in DOMAIN specs :
       LET k == extractColumns(specs[i][1].columns, [sourceModule |-> NoDetId])
       IN k \in DOMAIN tables[i] /\ ~IsBound(tables[i][k]) /\ tables[i][k].count > 0

\* the key the PER_EVENT and PER_EVENT_HARVEST steps lead to
RECURSIVE WalkKey(_, _, _)
WalkKey(i, sv, s) ==
  IF i > Len(s) THEN sv
  ELSE IF s[i].stage \notin Stage1Stages THEN WalkKey(i + 1, sv, s)
  ELSE IF s[i].type \in {"EXTEND_X", "EXTEND_Y"}
  THEN WalkKey(i + 1, [c \in (DOMAIN sv) \ {s[i].columns[1]} |-> sv[c]], s)
  ELSE IF s[i].type = "GROUPBY"
  THEN WalkKey(i + 1, [c \in Range(s[i].columns) |->
                         IF c \in DOMAIN sv THEN sv[c] ELSE UNDEFINED], s)
  ELSE WalkKey(i + 1, sv, s)

FinalKey(s, mod) ==
  WalkKey(1, [c \in Range(s[1].columns) |-> ColumnValue(mod, c)], s)

BookedSources(s) ==
  {mod \in Range(allModules) :
     bookUndefined \/ \A c \in Range(s[1].columns) : ColumnValue(mod, c) # UNDEFINED}

\* C6: after book the bound Histograms of a program are exactly those at the
\* final Keys of the sources that are not skipped (a source with an UNDEFINED
\* seed column is skipped unless bookUndefined), one Histogram per final Key,
\* booked once also when several sources reach that Key.
BookedExactlyFinalKeys ==
  (phase = "booked" /\ enabled /\ aborted = "") =>
    \A i \in DOMAIN specs :
      LET t == tables[i]
          fk == {FinalKey(specs[i], mod) : mod \in BookedSources(specs[i])}
      IN /\ {k \in DOMAIN t : t[k].me # NoME} = fk
         /\ \A k \in fk : t[k].me \in DOMAIN store /\ store[t[k].me].bookings = 1
         /\ \A k1 \in fk : \A k2 \in fk : k1 # k2 => t[k1].me # t[k2].me

\* C6 witness: booked with a skipped source and two sources sharing one Key
BookedSharedKey ==
  /\ phase = "booked" /\ enabled /\ aborted = "" /\ ~bookUndefined
  /\ specs = <<ProgCountGroupBy>>
  /\ BookedSources(specs[1]) = {1, 2}
  /\ FinalKey(specs[1], 1) = FinalKey(specs[1], 2)
  /\ tables[1][LayerKey(1)].me # NoME

\* C7: for COUNT then EXTEND_X on column C (minimum m, maximum M) at
\* PER_EVENT, booking creates 1-D Histograms with M-m+1 bins over
\* [m-0.5, M+0.5], and every fill from a source whose value on C is v
\* (m <= v <= M) increments exactly the bin of v in the Histogram of the Key
\* without C and no other bin, also when fills from one source repeat.
ExtendXFillsBinOfValue ==
  [][\A i \in DOMAIN specs :
       (enabled /\ specs[i] = ProgCountExtendX /\ aborted' = "") =>
         LET m == minValue(PXLadder)
             M == maxValue(PXLadder)
         IN /\ IsBookStep =>
                 \A k \in BoundKeys(tables'[i]) :
                   LET h == store'[tables'[i][k].me].h
                   IN /\ h.dim = 1 /\ h.nx = M - m + 1
                      /\ h.xmin2 = 2 * m - 1 /\ h.xmax2 = 2 * M + 1
            /\ IsFillStep =>
                 LET v == ColumnValue(iq'.sourceModule, PXLadder)
                     k == ValuesErase(extractColumns(specs[i][1].columns, iq'),
                                      PXLadder)
                 IN (m <= v /\ v <= M /\ k \in BoundKeys(tables[i])) =>
                      LET me == tables[i][k].me
                      IN store'[me].h.bins =
                           [store[me].h.bins EXCEPT ![v - m + 1] = @ + 1]]_vars

\* the step executed by this transition of the stage-2 walk
LastExecuted == executed'[1][Len(executed'[1])]

IsExecStep(type) ==
  /\ phase = "stage2"
  /\ Len(executed'[1]) = Len(executed[1]) + 1
  /\ LastExecuted.type = type
  /\ aborted' = ""

\* all orderings of a finite set, as sequences
Orderings(S) ==
  {f \in [1..Cardinality(S) -> S] :
     \A a \in DOMAIN f : \A b \in DOMAIN f : a # b => f[a] # f[b]}

\* the bin-wise sum of the distributions of the entries S of table t
BinwiseSum(t, st, S) ==
  LET h0 == ContentOf(t[CHOOSE k \in S : TRUE], st)
  IN [b \in DOMAIN h0.bins |->
        SumOver([k \in S |-> ContentOf(t[k], st).bins[b]], S)]

TableContent(t, st) ==
  SumOver([k \in DOMAIN t |-> TotalContent(ContentOf(t[k], st))], DOMAIN t)

AscendingBy(S, col) ==
  CHOOSE f \in Orderings(S) :
    \A a \in DOMAIN f : \A b \in DOMAIN f :
      a < b => ValuesAt(f[a], col) < ValuesAt(f[b], col)

\* the bins 1..nx of the 1-D distributions of the keys ks, one after another
RECURSIVE ConcatBins(_, _, _)
ConcatBins(ks, t, st) ==
  IF Len(ks) = 0 THEN <<>>
  ELSE LET h == ContentOf(t[Head(ks)], st)
       IN [b \in 1..h.nx |-> h.bins[b]] \o ConcatBins(Tail(ks), t, st)

\* C9: stage-2 EXTEND_X over 1-D inputs gives, for each resulting Key, one
\* 1-D distribution whose bin count is the sum of the inputs' bin counts and
\* whose bins are the inputs' bins concatenated in ascending order of the
\* dropped column's value, each copied once: the fill cursor ends at the
\* total bin count plus 1.
ExtendXConcatenates ==
  [][(/\ IsExecStep("EXTEND_X")
      /\ \A k \in DOMAIN tables[1] : ContentOf(tables[1][k], store).dim = 1) =>
       LET col == LastExecuted.columns[1]
           old == tables[1]
           new == tables'[1]
           inputs(nk) == {k \in DOMAIN old : ValuesErase(k, col) = nk}
       IN /\ DOMAIN new = {ValuesErase(k, col) : k \in DOMAIN old}
          /\ \A nk \in DOMAIN new :
               LET cat == ConcatBins(AscendingBy(inputs(nk), col), old, store)
                   h == new[nk].th1.h
               IN /\ new[nk].th1.kind = "own"
                  /\ h.dim = 1
                  /\ h.nx = Len(cat)
                  /\ h.nx = SumOver([k \in inputs(nk) |->
                                       ContentOf(old[k], store).nx], inputs(nk))
                  /\ \A b \in 1..h.nx : h.bins[b] = cat[b]
                  /\ h.bins[0] = 0 /\ h.bins[h.nx + 1] = 0
                  /\ new[nk].count = h.nx + 1]_vars

\* C9 witness: EXTEND_X(ladder) has put the bins of ladder 1 (one sample of
\* the value 0) before those of ladder 2 (two samples of the value 1)
ExtendedLadders ==
  /\ phase = "stage2" /\ aborted = ""
  /\ executed[1] = <<Step("EXTEND_X", "STAGE2", <<PXLadder>>, "")>>
  /\ LayerKey(1) \in DOMAIN tables[1]
  /\ LET e == tables[1][LayerKey(1)]
     IN /\ e.th1.kind = "own" /\ e.th1.h.nx = 4 /\ e.count = 5
        /\ e.th1.h.bins[1] = 1 /\ e.th1.h.bins[2] = 0
        /\ e.th1.h.bins[3] = 0 /\ e.th1.h.bins[4] = 2

\* C10: after a SAVE every entry that had content holds a live persisted
\* handle with the same bin contents; a second SAVE directly after a SAVE
\* publishes nothing and changes no entry of the Table.
SaveIsIdempotent ==
  [][IsExecStep("SAVE") =>
       LET old == tables[1]
           new == tables'[1]
           n == Len(executed[1])
       IN /\ DOMAIN new = DOMAIN old
          /\ \A k \in DOMAIN old :
               old[k].th1.kind # "null" =>
                 /\ new[k].me \in DOMAIN store'
                 /\ new[k].th1.kind = "me"
                 /\ store'[new[k].me].h.bins = ContentOf(old[k], store).bins
          /\ (n > 0 /\ executed[1][n].type = "SAVE") =>
               /\ tables' = tables
               /\ store' = store]_vars

\* C10 witness: the result of a GROUPBY was saved, and SAVE ran once more
SavedTwice ==
  /\ phase = "stage2" /\ aborted = ""
  /\ executed[1] = <<Step("GROUPBY", "STAGE2", <<PXLayer>>, ""),
                     SaveStage2, SaveStage2>>
  /\ \A k \in DOMAIN tables[1] :
       tables[1][k].me \in DOMAIN store /\ store[tables[1][k].me].bookings = 1
  /\ DOMAIN tables[1] # {}

\* C11: a stage-2 REDUCE whose reduction name is neither MEAN nor COUNT does
\* not abort and leaves every entry unreduced: each entry's distribution
\* after the step is the one it had before the step.
ReduceUnknownLeavesUnreduced ==
  [][(/\ phase = "stage2"
      /\ Len(executed'[1]) = Len(executed[1]) + 1
      /\ LastExecuted.type = "REDUCE"
      /\ LastExecuted.arg \notin {"MEAN", "COUNT"}
      /\ \A k \in DOMAIN tables[1] : tables[1][k].th1.kind # "null") =>
       /\ aborted' = ""
       /\ DOMAIN tables'[1] = DOMAIN tables[1]
       /\ \A k \in DOMAIN tables[1] :
            LET h == ContentOf(tables[1][k], store)
                h2 == ContentOf(tables'[1][k], store')
            IN h2.nx = h.nx /\ h2.bins = h.bins /\ h2.entries = h.entries]_vars

\* a call of executeHarvestingOffline
IsOfflineStep == phase' \in {"harvested", "reharvested"} /\ phase' # phase

\* C12: a stage-2 EXTEND_X / EXTEND_Y aborts whenever two of its input
\* entries that map to the same resulting Key have different dimensionality;
\* it never merges a 1-D and a 2-D distribution.
ExtendRejectsMixedDimensions ==
  [][(/\ IsOfflineStep /\ enabled
      /\ Len(specs[1]) >= 2
      /\ specs[1][2].stage = "STAGE2"
      /\ specs[1][2].type \in {"EXTEND_X", "EXTEND_Y"}) =>
       LET t == loadFromDQMStore(specs[1], tables[1], iConfig, store).t
           col == specs[1][2].columns[1]
           hist == {k \in DOMAIN t : t[k].th1.kind # "null"}
           mixed == \E k1 \in hist : \E k2 \in hist :
                      /\ ValuesErase(k1, col) = ValuesErase(k2, col)
                      /\ ContentOf(t[k1], store).dim # ContentOf(t[k2], store).dim
       IN mixed => aborted' # ""]_vars

\* the steps of a program tagged POST_RUN, in program order
PostRunSteps(s) == SelectSeq(s, LAMBDA step : step.stage = "STAGE2")

\* the steps applied one after another; m = [t, store, aborted]
RECURSIVE RunSteps(_, _, _, _)
RunSteps(steps, m, cfg, bookUndef) ==
  IF Len(steps) = 0 \/ m.aborted # "" THEN m
  ELSE RunSteps(Tail(steps), Stage2Step(Head(steps), m, cfg, bookUndef),
                cfg, bookUndef)

\* C13: a stage-2 harvest of a program executes exactly its steps tagged
\* POST_RUN, each once and in program order, on the reloaded Table, and skips
\* the steps of every other stage; a POST_RUN step of type COUNT or without
\* type aborts the harvest.
HarvestRunsPostRunSteps ==
  [][(IsOfflineStep /\ enabled) =>
       /\ aborted' = "" =>
            \A i \in DOMAIN specs : executed'[i] = PostRunSteps(specs[i])
       /\ (\E i \in DOMAIN specs : \E j \in DOMAIN specs[i] :
             /\ specs[i][j].stage = "STAGE2"
             /\ specs[i][j].type \in {"COUNT", "NO_TYPE"}) => aborted' # ""
       /\ (aborted' = "" /\ Len(specs) = 1) =>
            LET l == loadFromDQMStore(specs[1], tables[1], iConfig, store)
                r == RunSteps(PostRunSteps(specs[1]),
                              [t |-> l.t, store |-> store, aborted |-> l.aborted],
                              iConfig, bookUndefined)
            IN tables'[1] = r.t /\ store' = r.store]_vars

\* C13 witness: the harvest of a program with two POST_RUN steps has run both,
\* EXTEND_Y before SAVE, and published the extended histogram of layer 1
HarvestedTwoSteps ==
  /\ phase = "harvested" /\ enabled /\ aborted = ""
  /\ specs = <<ProgExtendYHarvest>>
  /\ executed[1] = <<Step("EXTEND_Y", "STAGE2", <<PXLadder>>, ""), SaveStage2>>
  /\ LayerKey(1) \in DOMAIN tables[1]
  /\ tables[1][LayerKey(1)].me \in DOMAIN store
  /\ store[tables[1][LayerKey(1)].me].h.dim = 2

\* C14: an executeStep1Spec call that is given a non-null cache slot, in the
\* PER_EVENT stage (fill) or the PER_EVENT_HARVEST stage (harvestPerEvent),
\* makes no Table lookup: no find and no operator[].
CachedCallMakesNoLookup ==
  \A n \in DOMAIN calls : calls[n].fp.kind # "null" => calls[n].lookups = 0

\* C14 (amended): a call that is given a non-null cache slot makes no Table
\* lookup unless it executes a GROUPBY step; every PER_EVENT call is of that
\* kind.  A call that executes a GROUPBY (PER_EVENT_HARVEST) makes two: the
\* operator[] that resets the Counter and the find of the regrouped Key.
CachedCallLooksUpOnlyForGroupBy ==
  \A n \in DOMAIN calls :
    LET c == calls[n]
        s == specs[c.i]
        returns(j) == /\ s[j].stage = c.stage /\ s[j].type = "COUNT"
                      /\ j < Len(s) /\ s[j + 1].stage = "STAGE1_2"
        groups == \E j \in DOMAIN s :
                    /\ s[j].stage = c.stage /\ s[j].type = "GROUPBY"
                    /\ \A j2 \in 1..(j - 1) : ~returns(j2)
    IN c.fp.kind # "null" =>
         /\ c.lookups = IF groups THEN 2 ELSE 0
         /\ c.stage = "STAGE1" => c.lookups = 0

\* C14 witness: a fill reused the cache slot of the previous fill
CachedFillCall ==
  /\ phase = "booked" /\ aborted = ""
  /\ \E n \in DOMAIN calls :
       /\ calls[n].stage = "STAGE1" /\ calls[n].fp.kind = "entry"
       /\ ~calls[n].extracted /\ calls[n].lookups = 0

\* C15: for every program and every source, loadFromDQMStore walks the
\* PER_EVENT and PER_EVENT_HARVEST steps to the same final Key and the same
\* name as book does, so the reload finds every Histogram that booking
\* created again under its Key: in the live Table, and in the empty Table of
\* a Manager constructed for harvesting.
LoadFindsBookedHistograms ==
  [][(IsOfflineStep /\ enabled /\ phase # "harvested") =>
       \A i \in DOMAIN specs :
         LET s == specs[i]
             sv0(mod) == extractColumns(s[1].columns, [sourceModule |-> mod])
             bw(mod) ==
               BookWalk(1, [dimensions |-> dimensions, name |-> iConfig.name,
                            nx |-> iConfig.range_nbins,
                            xmin2 |-> iConfig.range_min2,
                            xmax2 |-> iConfig.range_max2,
                            ny |-> iConfig.range_y_nbins,
                            ymin2 |-> iConfig.range_y_min2,
                            ymax2 |-> iConfig.range_y_max2,
                            sv |-> sv0(mod), t |-> EmptyTable,
                            status |-> "run", msg |-> ""], s, iConfig)
             lw(mod) == LoadWalk(1, [name |-> iConfig.name, sv |-> sv0(mod),
                                     status |-> "run", msg |-> ""], s)
             saves == \A j \in DOMAIN s : s[j].stage = "STAGE2" => s[j].type = "SAVE"
             fk == {FinalKey(s, mod) : mod \in BookedSources(s)}
         IN /\ \A mod \in Range(allModules) :
                 bw(mod).status = "run" =>
                   /\ lw(mod).status = "run"
                   /\ lw(mod).sv = bw(mod).sv
                   /\ lw(mod).name = bw(mod).name
            /\ (saves /\ aborted' = "" /\ phase = "booked") =>
                 \A k \in DOMAIN tables[i] :
                   tables[i][k].me # NoME =>
                     /\ tables'[i][k].me = tables[i][k].me
                     /\ tables'[i][k].th1.kind = "me"
            /\ (saves /\ aborted' = "" /\ phase = "fresh") =>
                 /\ DOMAIN tables'[i] = fk
                 /\ \A k \in fk : /\ tables'[i][k].me \in DOMAIN store
                                  /\ tables'[i][k].th1.kind = "me"
                 /\ Len(specs) = 1 => HandlesOf(tables'[i]) = DOMAIN store]_vars

\* C15 witness: a Manager constructed after the fills has reloaded the
\* histogram of layer 1 that the COUNT / GROUPBY program booked
ReloadedAfterFills ==
  /\ phase = "harvested" /\ enabled /\ aborted = ""
  /\ specs = <<ProgCountGroupBy>>
  /\ nfills[1] > 0 /\ iq = NoIq
  /\ LayerKey(1) \in DOMAIN tables[1]
  /\ tables[1][LayerKey(1)].th1.kind = "me"
  /\ tables[1][LayerKey(1)].me \in DOMAIN store

\* C16: in every reachable state no Table slot is used both as a Counter and
\* as a Histogram: a slot with a bound Histogram never has its count written,
\* also when the PER_EVENT_HARVEST GROUPBY lists all seed columns and for the
\* entries a stage-2 EXTEND produces.
CounterXorHistogram ==
  \A i \in DOMAIN tables : \A k \in DOMAIN tables[i] :
    IsBound(tables[i][k]) => tables[i][k].count = 0

\* C17: in a fill, a COUNT step increments the Counter of the current Key and
\* returns exactly when the step after it is a GROUPBY tagged
\* PER_EVENT_HARVEST; in every other case, COUNT as the last step included, it
\* increments no Counter and the walk goes on without error.
CountIncrementsOnlyBeforeGroupBy ==
  [][(IsFillStep /\ enabled) =>
       \A n \in DOMAIN calls' :
         LET c == calls'[n]
             s == specs[c.i]
             t == tables[c.i]
             old == IF c.sv \in DOMAIN t THEN t[c.sv].count ELSE 0
         IN \A j \in DOMAIN s :
              (s[j].type = "COUNT" /\ s[j].stage = "STAGE1") =>
                IF /\ j < Len(s)
                   /\ s[j + 1].type = "GROUPBY" /\ s[j + 1].stage = "STAGE1_2"
                THEN /\ tables'[c.i][c.sv].count = old + 1
                     /\ \A p \in HandlesOf(t) : store'[p] = store[p]
                ELSE /\ aborted' # "steps.at: out_of_range"
                     /\ c.sv \in DOMAIN tables'[c.i] =>
                          tables'[c.i][c.sv].count = old]_vars

\* C19: harvestPerEvent runs the stage-1 executor on Counter entries only,
\* never on an entry bound to a Histogram; for a program without a
\* PER_EVENT_HARVEST step it leaves every Histogram and every Counter of the
\* program's Table as it was.
HarvestTouchesOnlyCounters ==
  [][(IsHarvestStep /\ enabled) =>
       /\ \A n \in DOMAIN calls' : ~IsBound(calls'[n].fp.e)
       /\ \A i \in DOMAIN specs :
            (\A j \in DOMAIN specs[i] : specs[i][j].stage # "STAGE1_2") =>
              /\ tables'[i] = tables[i]
              /\ \A p \in HandlesOf(tables[i]) : store'[p] = store[p]]_vars

\* C20: a fill of a program whose PER_EVENT steps hold an EXTEND_X or
\* EXTEND_Y with no COUNT before it aborts, whatever the Manager's
\* dimensionality and the sample values are.
ExtendWithoutCountRejected ==
  [][(IsFillStep /\ enabled) =>
       \A n \in DOMAIN calls' :
         LET s == specs[calls'[n].i]
         IN (\E j \in DOMAIN s :
               /\ s[j].stage = "STAGE1"
               /\ s[j].type \in {"EXTEND_X", "EXTEND_Y"}
               /\ \A j2 \in 1..(j - 1) :
                    ~(s[j2].stage = "STAGE1" /\ s[j2].type = "COUNT")) =>
              aborted' # ""]_vars

\* C18: a fill whose identity (module, event, column, row) differs from the
\* previous fill's, or whose module is the "no module" identity, runs every
\* program on freshly extracted Values and a null cache slot; every other
\* fill runs every program on the Values and the slot the previous fill left.
FillReextractsOnNewIdentity ==
  [][(IsFillStep /\ enabled) =>
       LET differs == iq' # iq \/ iq'.sourceModule = NoDetId
       IN /\ aborted' = "" => Len(calls') = Len(specs)
          /\ \A n \in DOMAIN calls' :
               /\ calls'[n].i = n
               /\ calls'[n].stage = "STAGE1"
               /\ IF differs
                  THEN /\ calls'[n].extracted
                       /\ calls'[n].fp = NullPtr
                       /\ calls'[n].sv =
                            extractColumns(specs[n][1].columns, iq')
                  ELSE /\ ~calls'[n].extracted
                       /\ calls'[n].fp = fastpath[n]
                       /\ calls'[n].sv = significantvalues[n]]_vars

\* two fills in a row carried the "no module" identity and the second one
\* ran both programs of a Manager on fresh Values
RefilledWithoutModule ==
  /\ phase = "booked" /\ aborted = ""
  /\ iq.sourceModule = NoDetId /\ nfills[NoDetId] >= 2
  /\ Len(calls) = 2
  /\ \A n \in DOMAIN calls : calls[n].stage = "STAGE1" /\ calls[n].extracted

\* C21: a stage-2 REDUCE keeps the Table's key set and replaces the
\* distribution of every entry by a single-bin distribution that has no
\* persisted handle; with the reduction name COUNT the content of that bin
\* is the number of entries of the distribution the entry held before.
ReduceYieldsSingleBin ==
  [][(/\ phase = "stage2"
      /\ Len(executed'[1]) = Len(executed[1]) + 1
      /\ LastExecuted.type = "REDUCE"
      /\ \A k \in DOMAIN tables[1] : tables[1][k].th1.kind # "null") =>
       /\ aborted' = ""
       /\ DOMAIN tables'[1] = DOMAIN tables[1]
       /\ store' = store
       /\ \A k \in DOMAIN tables[1] :
            LET e2 == tables'[1][k] IN
            /\ e2.me = NoME
            /\ e2.th1.kind = "own"
            /\ e2.th1.h.dim = 1 /\ e2.th1.h.nx = 1
            /\ LastExecuted.arg = "COUNT" =>
                 GetBinContent1(e2.th1.h, 1) = ContentOf(tables[1][k], store).entries]_vars

\* a REDUCE by COUNT has just turned a histogram with two entries into a
\* single bin holding 2
ReducedToCount ==
  /\ phase = "stage2" /\ aborted = ""
  /\ Len(executed[1]) >= 1
  /\ executed[1][Len(executed[1])].type = "REDUCE"
  /\ executed[1][Len(executed[1])].arg = "COUNT"
  /\ \E k \in DOMAIN tables[1] :
       /\ tables[1][k].th1.kind = "own" /\ tables[1][k].me = NoME
       /\ tables[1][k].th1.h.nx = 1
       /\ GetBinContent1(tables[1][k].th1.h, 1) = 2

\* C22: in every interleaving of fill and harvestPerEvent calls, a fill
\* changes only the accumulators (Histograms, Counters) that the same fill
\* run with a freshly extracted Key and a null cache slot would change; a
\* sample that is dropped as unbooked stays dropped when the fill is repeated
\* with the same identity after a harvestPerEvent call.
FillHitsOnlyFreshAccumulator ==
  [][(IsFillStep /\ enabled) =>
       \A v \in FillValues :
         fill(v[1], v[2], iq') =>
           LET CountAt(ts, i, k) == IF k \in DOMAIN ts[i] THEN ts[i][k].count ELSE 0
               Only(fresh) ==
                 /\ \A p \in DOMAIN store :
                      store'[p] # store[p] => fresh.store[p] # store[p]
                 /\ \A i \in DOMAIN tables : \A k \in DOMAIN tables'[i] :
                      CountAt(tables', i, k) # CountAt(tables, i, k) =>
                        CountAt(fresh.ts, i, k) # CountAt(tables, i, k)
           IN Only(FillSpecs(1, [ts |-> tables, svs |-> significantvalues,
                                 fps |-> fastpath, store |-> store,
                                 aborted |-> "", calls |-> <<>>],
                             v[1], v[2], FALSE, iq'))]_vars

\* C23: for every program that booking accepts and every source that booking
\* did not skip, the walk of the stage-1 executor over a freshly extracted
\* Key (the PER_EVENT walk of fill; for a program that counts per event, the
\* PER_EVENT_HARVEST walk of harvestPerEvent over the source's Counter) ends
\* at the Key and the dimensionality the booking walk computed for the
\* source, so the sample finds a bound Histogram: it is neither dropped nor
\* does it hit the "all histograms were booked" error.
ExecutorReachesBookedKey ==
  [][(enabled /\ phase = "booked") =>
       \A n \in DOMAIN calls' :
         LET c == calls'[n]
             s == specs[c.i]
             sv0(mod) == extractColumns(s[1].columns, [sourceModule |-> mod])
             bw(mod) ==
               BookWalk(1, [dimensions |-> dimensions, name |-> iConfig.name,
                            nx |-> iConfig.range_nbins,
                            xmin2 |-> iConfig.range_min2,
                            xmax2 |-> iConfig.range_max2,
                            ny |-> iConfig.range_y_nbins,
                            ymin2 |-> iConfig.range_y_min2,
                            ymax2 |-> iConfig.range_y_max2,
                            sv |-> sv0(mod), t |-> EmptyTable,
                            status |-> "run", msg |-> ""], s, iConfig)
             walk(x, y) ==
               Step1Walk(1, [x |-> x, y |-> y, dimensions |-> dimensions,
                             sv |-> c.sv, t |-> tables[c.i], fp |-> c.fp,
                             store |-> store, status |-> "run", msg |-> "",
                             lookups |-> 0], s, c.stage)
             counts == \E j \in 1..(Len(s) - 1) :
                         /\ s[j].type = "COUNT" /\ s[j].stage = "STAGE1"
                         /\ s[j + 1].stage = "STAGE1_2"
             Agrees(w, b) ==
               w.status = "run" =>
                 /\ w.sv = b.sv
                 /\ w.dimensions = b.dimensions
                 /\ ~Unbooked(tables[c.i], w.sv)
                 /\ ~(/\ n = Len(calls')
                      /\ aborted' = "All histograms were booked but one is missing.")
         IN /\ (IsFillStep /\ c.extracted /\ iq'.sourceModule \in BookedSources(s)) =>
                 \A v \in FillValues :
                   fill(v[1], v[2], iq') =>
                     Agrees(walk(v[1], v[2]), bw(iq'.sourceModule))
            /\ (IsHarvestStep /\ counts) =>
                 \A mod \in BookedSources(s) :
                   sv0(mod) = c.sv => Agrees(walk(0, 0), bw(mod))]_vars

\* C24: in a stage-2 harvest every Table entry that a POST_RUN GROUPBY,
\* REDUCE or EXTEND step reads has a bound distribution, so no step reads an
\* empty entry: when the Table starts empty and is filled by the reload, and
\* when the harvest runs on the live Table that booking and stage 1 left.
HarvestReadsBoundEntries ==
  [][(IsOfflineStep /\ enabled) =>
       aborted' \notin {NullDeref, "invalid histogram"}]_vars

====
